---- MODULE Spec2Model ----
(***************************************************************************)
(* Model of the project scanner of projector (package scanner):  Scan,     *)
(* scanFolder, isProject, isIgnored and deduplicateNames, run over a       *)
(* bounded family of file systems and scanner configurations.              *)
(*                                                                         *)
(* A file name is a sequence of one-character strings, a path is the       *)
(* sequence of its components below the file-system root.                  *)
(***************************************************************************)
EXTENDS Integers, Sequences, FiniteSets, TLC

\* ------------------------------------------------------------------ bounds
\* maxDepth is drawn from 0..MaxDepthBound
MaxDepthBound == 3
\* baseFolders holds at most MaxBases entries
MaxBases == 2
\* a path string handed to Expand or Collapse is made of at most MaxSegments
\* segments
MaxSegments == 3
\* a list handed to the storage holds at most MaxStored projects
MaxStored == 2
\* a session runs at most MaxCommands commands
MaxCommands == 3

\* ------------------------------------------------------------- file names
nT      == <<"t">>
nP      == <<"p">>
nSub    == <<"s", "u", "b">>
nApi    == <<"a", "p", "i">>
nApi2   == <<"a", "p", "i", "-", "2">>
nHid    == <<".", "h">>
nVscode == <<".", "v", "s", "c", "o", "d", "e">>
nOut    == <<"o", "u", "t">>
nLnk    == <<"l", "n", "k">>
nFile   == <<"f">>
nBad    == <<"b">>
nGone   == <<"m">>
nGit    == <<".", "g", "i", "t">>
nSvn    == <<".", "s", "v", "n">>
nHg     == <<".", "h", "g">>
extWorkspace == <<".", "c", "o", "d", "e", "-", "w", "o", "r", "k", "s", "p", "a", "c", "e">>
nUp     == <<"u", "p">>
\* the first component of a relative path: the working directory
nCwd    == <<".">>
\* the working directory of the process
Cwd     == <<nT>>

\* the byte order of the characters that occur in names and paths
Alphabet ==
    <<"$", "*", "-", ".", "/", "0", "1", "2", "3", "4", "5", "6", "7", "8", "9",
      "A", "B", "C", "D", "E", "F", "G", "H", "I", "J", "K", "L", "M",
      "N", "O", "P", "Q", "R", "S", "T", "U", "V", "W", "X", "Y", "Z",
      "a", "b", "c", "d", "e", "f", "g", "h", "i", "j", "k", "l", "m",
      "n", "o", "p", "q", "r", "s", "t", "u", "v", "w", "x", "y", "z", "~">>

CodeTable ==
    [ c \in { Alphabet[i] : i \in 1..Len(Alphabet) } |->
        CHOOSE i \in 1..Len(Alphabet) : Alphabet[i] = c ]

Code(c) == CodeTable[c]

RECURSIVE NameLess(_, _)
\* byte-wise comparison of two file names (the order os.ReadDir sorts by)
NameLess(a, b) ==
    IF a = <<>> THEN b # <<>>
    ELSE IF b = <<>> THEN FALSE
    ELSE IF a[1] = b[1] THEN NameLess(Tail(a), Tail(b))
    ELSE Code(a[1]) < Code(b[1])

\* ------------------------------------------------------------ file system
\* The directories, files and links every file system of the family has.
\* t/lnk is a symbolic link to the directory t/p, t/p/sub/lnk one to the
\* directory t/api, and t/p/sub/b one to t/m, which does not exist.
StaticNodes ==
    { [path |-> <<nT>>,                   type |-> "dir"],
      [path |-> <<nT, nHid>>,             type |-> "dir"],
      [path |-> <<nT, nHid, nApi>>,       type |-> "dir"],
      [path |-> <<nT, nHid, nApi, nGit>>, type |-> "dir"],
      [path |-> <<nT, nVscode>>,          type |-> "dir"],
      [path |-> <<nT, nVscode, nGit>>,    type |-> "dir"],
      [path |-> <<nT, nApi>>,             type |-> "dir"],
      [path |-> <<nT, nApi, nGit>>,       type |-> "dir"],
      [path |-> <<nT, nApi2>>,            type |-> "dir"],
      [path |-> <<nT, nFile>>,            type |-> "file"],
      [path |-> <<nT, nLnk>>,             type |-> "symlink"],
      [path |-> <<nT, nOut>>,             type |-> "dir"],
      [path |-> <<nT, nOut, nApi>>,       type |-> "dir"],
      [path |-> <<nT, nOut, nApi, nGit>>, type |-> "dir"],
      [path |-> <<nT, nP>>,               type |-> "dir"],
      [path |-> <<nT, nP, nSub>>,         type |-> "dir"],
      [path |-> <<nT, nP, nSub, nApi>>,   type |-> "dir"],
      [path |-> <<nT, nP, nSub, nApi, nGit>>, type |-> "dir"],
      [path |-> <<nT, nP, nSub, nBad>>,   type |-> "symlink"],
      [path |-> <<nT, nP, nSub, nLnk>>,   type |-> "symlink"] }

LinkTarget(path) ==
    CASE path = <<nT, nLnk>>           -> <<nT, nP>>
      [] path = <<nT, nP, nSub, nLnk>> -> <<nT, nApi>>
      [] path = <<nT, nP, nSub, nBad>> -> <<nT, nGone>>
      [] path = <<nT, nP, nSub, nUp>>  -> <<nT, nP>>
      [] OTHER                         -> path

\* directories that may or may not hold a .git directory
GitCandidates == { <<nT, nP>>, <<nT, nP, nSub>>, <<nT, nApi2>> }

\* directories whose listing may fail
UnreadableCandidates == { <<nT, nP>> }

\* the values baseFolders is built from; t/m does not exist
BaseCandidates == { <<nT>>, <<nT, nP, nSub>>, <<nT, nGone>> }

\* the values ignoredFolders is drawn from
IgnoreChoices == { <<>>, <<nP>>, <<<<"o", "*">>>> }

RECURSIVE SeqsUpTo(_, _)
SeqsUpTo(S, n) ==
    IF n = 0 THEN { <<>> }
    ELSE SeqsUpTo(S, n - 1) \cup
         { Append(s, x) : s \in { q \in SeqsUpTo(S, n - 1) : Len(q) = n - 1 }, x \in S }

VARIABLES
    fs,                    \* the nodes of the file system: [path, type]
    unreadable,            \* directories whose listing fails
    baseFolders,           \* Scanner.baseFolders
    ignoredFolders,        \* Scanner.ignoredFolders
    maxDepth,              \* Scanner.maxDepth
    scannerType,           \* Scanner.scannerType
    ignoreWithinProjects,  \* Scanner.ignoreWithinProjects
    supportSymlinks,       \* Scanner.supportSymlinks
    errorHandler,          \* TRUE iff Scanner.errorHandler is not nil
    pc,                    \* "scan" while Scan runs, "done" once it returned
    baseIdx,               \* index of the next base folder of Scan's loop
    projects,              \* Scan's local slice projects
    seen,                  \* Scan's local map seen (the set of its true keys)
    reported,              \* the calls the error handler received, in order
    walks,                 \* per processed base: what scanFolder visited and found
    result                 \* what Scan returned

VARIABLES
    home,                  \* what os.UserHomeDir returns: [err, dir]
    cfg,                   \* the loaded config.Config
    favFile,               \* projects.json: [exists, projects]
    cacheFile,             \* cache.json: [exists, git, svn, mercurial, vscode, any]
    cmd,                   \* the command that is running, with its locals
    out,                   \* what the command started last returned and printed
    steps                  \* the number of commands started so far

vars == <<fs, unreadable, baseFolders, ignoredFolders, maxDepth, scannerType,
          ignoreWithinProjects, supportSymlinks, errorHandler, pc, baseIdx,
          projects, seen, reported, walks, result,
          home, cfg, favFile, cacheFile, cmd, out, steps>>

\* the process around the scanner: environment, storage and command
session == <<home, cfg, favFile, cacheFile, cmd, out, steps>>

config == <<fs, unreadable, baseFolders, ignoredFolders, maxDepth, scannerType,
            ignoreWithinProjects, supportSymlinks, errorHandler>>

\* ------------------------------------------------------- os and filepath
\* the absolute path a path names: a relative one is taken from Cwd
Absolute(path) ==
    IF path # <<>> /\ path[1] = nCwd THEN Cwd \o Tail(path) ELSE path

NodeType(path) ==
    LET abs == Absolute(path)
    IN  IF [path |-> abs, type |-> "dir"] \in fs THEN "dir"
        ELSE IF [path |-> abs, type |-> "file"] \in fs THEN "file"
        ELSE IF [path |-> abs, type |-> "symlink"] \in fs THEN "symlink"
        ELSE "none"

\* os.Stat follows symbolic links
StatType(path) ==
    IF NodeType(path) = "symlink" THEN NodeType(LinkTarget(Absolute(path)))
    ELSE NodeType(path)

StatNotExist(path) == StatType(path) = "none"

Join(folder, name) == Append(folder, name)

Base(folder) == folder[Len(folder)]

HasPrefix(s, prefix) ==
    /\ Len(s) >= Len(prefix)
    /\ SubSeq(s, 1, Len(prefix)) = prefix

HasSuffix(s, suffix) ==
    /\ Len(s) >= Len(suffix)
    /\ SubSeq(s, Len(s) - Len(suffix) + 1, Len(s)) = suffix

Contains(s, c) == \E i \in 1..Len(s) : s[i] = c

RECURSIVE Match(_, _)
\* filepath.Match for patterns made of literal characters and '*'
Match(pattern, name) ==
    IF pattern = <<>> THEN name = <<>>
    ELSE IF pattern[1] = "*"
         THEN \E k \in 0..Len(name) : Match(Tail(pattern), SubSeq(name, k + 1, Len(name)))
         ELSE /\ name # <<>>
              /\ name[1] = pattern[1]
              /\ Match(Tail(pattern), Tail(name))

\* the entries of a directory in the order of their names
SortedEntries(S) ==
    LET sorted[T \in SUBSET S] ==
            IF T = {} THEN <<>>
            ELSE LET first == CHOOSE e \in T : \A o \in T \ {e} : NameLess(e.name, o.name)
                 IN  <<first>> \o sorted[T \ {first}]
    IN  sorted[S]

\* what the directory a path names (through a link, if it is one) really is
Resolved(path) ==
    IF NodeType(path) = "symlink" THEN LinkTarget(Absolute(path)) ELSE Absolute(path)

\* os.ReadDir: fails on what is no directory and on a directory that cannot be
\* listed; otherwise the entries sorted by file name
ReadDirFails(folder) ==
    \/ StatType(folder) # "dir"
    \/ Resolved(folder) \in unreadable

ReadDir(folder) ==
    LET dir == Resolved(folder)
    IN  SortedEntries({ [name |-> Base(n.path), type |-> n.type] :
                        n \in { m \in fs : /\ Len(m.path) = Len(dir) + 1
                                           /\ SubSeq(m.path, 1, Len(dir)) = dir } })

\* DirEntry.IsDir reports the entry's own type: false for a symbolic link
IsDir(entry) == entry.type = "dir"

IsSymlink(entry) == entry.type = "symlink"

\* filepath.EvalSymlinks (a relative path stays relative when no link is met)
EvalSymlinksFails(path) == StatType(path) = "none"

EvalSymlinks(path) == IF NodeType(path) = "symlink" THEN Resolved(path) ELSE path

RECURSIVE Digits(_)
\* the decimal digits of n, as %d prints them
Digits(n) ==
    IF n < 10 THEN <<Alphabet[n + 6]>>
    ELSE Digits(n \div 10) \o <<Alphabet[(n % 10) + 6]>>

\* fmt.Sprintf("%s-%d", name, n)
Sprintf(name, n) == name \o <<"-">> \o Digits(n)

\* ---------------------------------------------------------------- scanner
dirExists(path) == StatType(path) = "dir"

fileExistsWithExt(folder, ext) ==
    /\ ~ReadDirFails(folder)
    /\ \E i \in 1..Len(ReadDir(folder)) :
          /\ ~IsDir(ReadDir(folder)[i])
          /\ HasSuffix(ReadDir(folder)[i].name, ext)

isProject_WrongMarker(folder) ==
    CASE scannerType = "git"       -> dirExists(Join(folder, nSvn))
      [] scannerType = "svn"       -> dirExists(Join(folder, nSvn))
      [] scannerType = "mercurial" -> dirExists(Join(folder, nHg))
      [] scannerType = "any"       -> TRUE
      [] OTHER                     -> FALSE

isProject(folder) ==
    CASE scannerType = "git"       -> dirExists(Join(folder, nGit))
      [] scannerType = "svn"       -> dirExists(Join(folder, nSvn))
      [] scannerType = "mercurial" -> dirExists(Join(folder, nHg))
      [] scannerType = "vscode"    -> fileExistsWithExt(folder, extWorkspace)
      [] scannerType = "any"       -> TRUE
      [] OTHER                     -> FALSE

isIgnored_GlobOnly(name) ==
    \E i \in 1..Len(ignoredFolders) :
        Contains(ignoredFolders[i], "*") /\ Match(ignoredFolders[i], name)

isIgnored(name) ==
    \E i \in 1..Len(ignoredFolders) :
        IF Contains(ignoredFolders[i], "*")
        THEN Match(ignoredFolders[i], name)
        ELSE name = ignoredFolders[i]

getProjectKind ==
    CASE scannerType = "git"       -> "git"
      [] scannerType = "svn"       -> "svn"
      [] scannerType = "mercurial" -> "mercurial"
      [] scannerType = "vscode"    -> "vscode"
      [] scannerType = "any"       -> "any"
      [] OTHER                     -> "favorites"

NewProject(folder) ==
    [Name |-> Base(folder), RootPath |-> folder, Tags |-> <<>>,
     Enabled |-> TRUE, Kind |-> getProjectKind]

\* a report of logError: the path and the message's prefix
Report(path, what) == [path |-> path, what |-> what]

NoWalk == [projects |-> <<>>, errors |-> <<>>, visits |-> <<>>]

\* the test of scanFolder's loop that decides whether a child is hidden
isHidden(name) == HasPrefix(name, <<".">>) /\ name # nVscode

\* the emission test of scanFolder
emits(isProj, insideProject) == isProj /\ (~ignoreWithinProjects \/ ~insideProject)

passDown_ParentOnly(isProj, insideProject) == isProj

\* the flag scanFolder hands to its recursive calls
passDown(isProj, insideProject) == IF isProj THEN TRUE ELSE insideProject

tooDeep_AtLimit(depth) == depth >= maxDepth

\* the depth test of scanFolder
tooDeep(depth) == depth > maxDepth

RECURSIVE scanFolder(_, _, _)
RECURSIVE scanEntries(_, _, _, _, _)

\* the loop of scanFolder over entries[i..], in the frame of folder
scanEntries(folder, entries, i, depth, insideProject) ==
    IF i > Len(entries) THEN NoWalk
    ELSE
      LET entry   == entries[i]
          name    == entry.name
          joined  == Join(folder, name)
          rest    == scanEntries(folder, entries, i + 1, depth, insideProject)
          skip    == \/ ~IsDir(entry)
                     \/ isHidden(name)
                     \/ isIgnored(name)
                     \/ (IsSymlink(entry) /\ ~supportSymlinks)
          badLink == IsSymlink(entry) /\ EvalSymlinksFails(joined)
          subPath == IF IsSymlink(entry) THEN EvalSymlinks(joined) ELSE joined
      IN  IF skip THEN rest
          ELSE IF badLink
          THEN [rest EXCEPT !.errors =
                   <<Report(joined, "failed to resolve symlink")>> \o @]
          ELSE LET sub == scanFolder(subPath, depth + 1, insideProject)
               IN  [projects |-> sub.projects \o rest.projects,
                    errors   |-> sub.errors \o rest.errors,
                    visits   |-> sub.visits \o rest.visits]

\* scanFolder: the projects it returns, the errors it logs and the calls it
\* makes (visits: one record per call that passes the depth test)
scanFolder(folder, depth, insideProject) ==
    IF tooDeep(depth) THEN NoWalk
    ELSE
      LET isProj == isProject(folder)
          own    == IF emits(isProj, insideProject) THEN <<NewProject(folder)>> ELSE <<>>
          inside == passDown(isProj, insideProject)
          visit  == [folder |-> folder, depth |-> depth, inside |-> insideProject,
                     isProject |-> isProj, passed |-> inside]
      IN  IF ReadDirFails(folder)
          THEN [projects |-> own,
                errors   |-> <<Report(folder, "failed to read directory")>>,
                visits   |-> <<visit>>]
          ELSE LET sub == scanEntries(folder, ReadDir(folder), 1, depth, inside)
               IN  [projects |-> own \o sub.projects,
                    errors   |-> sub.errors,
                    visits   |-> <<visit>> \o sub.visits]

\* logError: the handler is called only when one is set
logError(log, reports) == IF errorHandler THEN log \o reports ELSE log

appendUnseen_NoCheck(acc, seenSet, found) ==
    [projects |-> acc \o found, seen |-> seenSet \cup { found[i].RootPath : i \in 1..Len(found) }]

RECURSIVE appendUnseen(_, _, _)
\* the loop of Scan that appends the projects of found whose path is not seen
appendUnseen(acc, seenSet, found) ==
    IF found = <<>> THEN [projects |-> acc, seen |-> seenSet]
    ELSE IF Head(found).RootPath \in seenSet
         THEN appendUnseen(acc, seenSet, Tail(found))
         ELSE appendUnseen(Append(acc, Head(found)),
                           seenSet \cup {Head(found).RootPath}, Tail(found))

nameCount(ps, name) == Cardinality({ i \in 1..Len(ps) : ps[i].Name = name })

nameSeen_FromEnd(ps, i) == Cardinality({ j \in i..Len(ps) : ps[j].Name = ps[i].Name })

\* nameSeen[p.Name] after the second loop of deduplicateNames reached index i
nameSeen(ps, i) == Cardinality({ j \in 1..i : ps[j].Name = ps[i].Name })

\* deduplicateNames: ps is the list on entry (the loop reads each Name before
\* it rewrites it, and never reads a rewritten one)
deduplicateNames(ps) ==
    [ i \in 1..Len(ps) |->
        IF nameCount(ps, ps[i].Name) > 1 /\ nameSeen(ps, i) # 1
        THEN [ps[i] EXCEPT !.Name = Sprintf(ps[i].Name, nameSeen(ps, i))]
        ELSE ps[i] ]

\* ---------------------------------------------------------------- strings
\* A string is the sequence of its characters.
sTilde     == <<"~">>
sHomeLower == <<"$", "h", "o", "m", "e">>
sHomeUpper == <<"$", "H", "O", "M", "E">>
sSlash     == <<"/">>
sDot       == <<".">>

\* strings.Index: where old first occurs in s, 0 when it does not
Index(s, old) ==
    LET at == { i \in 1..(Len(s) - Len(old) + 1) : SubSeq(s, i, i + Len(old) - 1) = old }
    IN  IF at = {} THEN 0 ELSE CHOOSE i \in at : \A j \in at : i <= j

\* strings.Replace(s, old, new, 1)
Replace(s, old, new) ==
    LET i == Index(s, old)
    IN  IF i = 0 THEN s
        ELSE SubSeq(s, 1, i - 1) \o new \o SubSeq(s, i + Len(old), Len(s))

RECURSIVE JoinNames(_)
\* the names of a path with a separator between them
JoinNames(names) ==
    IF names = <<>> THEN <<>>
    ELSE IF Len(names) = 1 THEN names[1]
    ELSE names[1] \o sSlash \o JoinNames(Tail(names))

\* the string a path of the scanner stands for
PathString(path) ==
    IF path = <<>> THEN sSlash
    ELSE IF path[1] = nCwd
         THEN IF Len(path) = 1 THEN sDot ELSE JoinNames(Tail(path))
         ELSE sSlash \o JoinNames(path)

RECURSIVE SplitNames(_, _)
\* the names between the separators of s (cur: the name read so far); empty
\* names and "." are dropped, as filepath.Clean drops them
SplitNames(s, cur) ==
    LET done == IF cur = <<>> \/ cur = sDot THEN <<>> ELSE <<cur>>
    IN  IF s = <<>> THEN done
        ELSE IF s[1] = "/" THEN done \o SplitNames(Tail(s), <<>>)
        ELSE SplitNames(Tail(s), Append(cur, s[1]))

\* the path a string names: relative unless it starts with a separator
ParsePath(s) ==
    IF HasPrefix(s, sSlash) THEN SplitNames(s, <<>>)
    ELSE <<nCwd>> \o SplitNames(s, <<>>)

\* filepath.IsAbs
IsAbs(s) == HasPrefix(s, sSlash)

\* filepath.Abs: a relative path is joined to the working directory
Abs(s) == IF IsAbs(s) THEN PathString(ParsePath(s))
          ELSE PathString(Absolute(ParsePath(s)))

RECURSIVE TrimSpace(_)
\* strings.TrimSpace, for lines whose only white space is the blank
TrimSpace(s) ==
    IF s = <<>> THEN s
    ELSE IF s[1] = " " THEN TrimSpace(Tail(s))
    ELSE IF s[Len(s)] = " " THEN TrimSpace(SubSeq(s, 1, Len(s) - 1))
    ELSE s

\* ------------------------------------------------------------ package paths
HomeSet == [err |-> FALSE, dir |-> <<"/", "t">>]

Expand_NoTilde(path) ==
    IF home.err THEN path
    ELSE LET p2 == IF HasPrefix(path, sHomeLower)
                   THEN Replace(path, sHomeLower, home.dir) ELSE path
             p3 == IF HasPrefix(p2, sHomeUpper)
                   THEN Replace(p2, sHomeUpper, home.dir) ELSE p2
         IN  p3

Expand(path) ==
    IF home.err THEN path
    ELSE LET p1 == IF HasPrefix(path, sTilde)
                   THEN Replace(path, sTilde, home.dir) ELSE path
             p2 == IF HasPrefix(p1, sHomeLower)
                   THEN Replace(p1, sHomeLower, home.dir) ELSE p1
             p3 == IF HasPrefix(p2, sHomeUpper)
                   THEN Replace(p2, sHomeUpper, home.dir) ELSE p2
         IN  p3

Collapse(path) ==
    IF home.err THEN path
    ELSE IF HasPrefix(path, home.dir) THEN Replace(path, home.dir, sTilde)
    ELSE path

ExpandAll(ps) == [ i \in 1..Len(ps) |-> Expand(ps[i]) ]

\* ---------------------------------------------------------- package models
KindFavorite  == "favorites"
KindGit       == "git"
KindSVN       == "svn"
KindMercurial == "mercurial"
KindVSCode    == "vscode"
KindAny       == "any"

\* the buckets of the cache, in the order of the fields of CachedProjects
CacheKinds == <<KindGit, KindSVN, KindMercurial, KindVSCode, KindAny>>

KindSet == { CacheKinds[i] : i \in 1..Len(CacheKinds) }

\* --------------------------------------------------------- package storage
expandPath(path) ==
    IF home.err THEN path
    ELSE LET p1 == IF HasPrefix(path, sTilde)
                   THEN Replace(path, sTilde, home.dir) ELSE path
             p2 == IF HasPrefix(p1, sHomeLower)
                   THEN Replace(p1, sHomeLower, home.dir) ELSE p1
             p3 == IF HasPrefix(p2, sHomeUpper)
                   THEN Replace(p2, sHomeUpper, home.dir) ELSE p2
         IN  p3

collapsePath(path) ==
    IF home.err THEN path
    ELSE IF HasPrefix(path, home.dir) THEN Replace(path, home.dir, sTilde)
    ELSE path

\* the record written for a project: Kind is not persisted
saveProject(p) ==
    [name |-> p.Name, rootPath |-> collapsePath(p.RootPath),
     tags |-> p.Tags, enabled |-> p.Enabled]

loadProject_NoExpand(r, kind) ==
    [Name |-> r.name, RootPath |-> r.rootPath,
     Tags |-> r.tags, Enabled |-> r.enabled, Kind |-> kind]

\* the project read from a record of the bucket of kind
loadProject(r, kind) ==
    [Name |-> r.name, RootPath |-> expandPath(r.rootPath),
     Tags |-> r.tags, Enabled |-> r.enabled, Kind |-> kind]

NoProjectsFile == [exists |-> FALSE, projects |-> <<>>]

EmptyCache == [ k \in KindSet |-> <<>> ]

NoCacheFile == [exists |-> FALSE, buckets |-> EmptyCache]

SaveProjects(list) ==
    [exists |-> TRUE, projects |-> [ i \in 1..Len(list) |-> saveProject(list[i]) ]]

LoadProjects(file) ==
    IF ~file.exists THEN <<>>
    ELSE [ i \in 1..Len(file.projects) |-> loadProject(file.projects[i], KindFavorite) ]

SaveCache(cache) ==
    [exists |-> TRUE,
     buckets |-> [ k \in KindSet |->
                     [ i \in 1..Len(cache[k]) |-> saveProject(cache[k][i]) ] ]]

LoadCache(file) ==
    IF ~file.exists THEN EmptyCache
    ELSE [ k \in KindSet |->
             [ i \in 1..Len(file.buckets[k]) |-> loadProject(file.buckets[k][i], k) ] ]

\* a removal that leaves the bucket of kind any behind
ClearCache_KeepAny(file) ==
    [exists |-> file.exists, buckets |-> [EmptyCache EXCEPT ![KindAny] = file.buckets[KindAny]]]

\* Storage.ClearCache: os.Remove of the cache file; a file that does not
\* exist is not an error
ClearCache(file) == NoCacheFile

\* ---------------------------------------------------------- package config
\* DefaultConfig, with the ignored folders that occur in the file system
DefaultConfig ==
    [SortList                     |-> "Name",
     CheckInvalidPaths            |-> TRUE,
     CacheProjectsBetweenSessions |-> TRUE,
     IgnoreProjectsWithinProjects |-> FALSE,
     SupportSymlinks              |-> FALSE,
     BaseFolders                  |-> [ k \in KindSet |-> <<>> ],
     IgnoredFolders               |-> [ k \in KindSet |-> <<nOut>> ],
     MaxDepth                     |-> [ k \in KindSet |-> 4 ]]

\* no command is running
Idle == [name |-> "idle"]

\* no command has returned yet
NoOutcome == [name |-> "none", err |-> "nil"]

\* ------------------------------------------------------------------- Init
Init ==
    /\ \E g \in SUBSET GitCandidates :
          fs = StaticNodes \cup { [path |-> Join(d, nGit), type |-> "dir"] : d \in g }
    /\ unreadable \in SUBSET UnreadableCandidates
    /\ baseFolders \in SeqsUpTo(BaseCandidates, MaxBases)
    /\ ignoredFolders \in IgnoreChoices
    /\ maxDepth \in 0..MaxDepthBound
    /\ scannerType = "git"
    /\ ignoreWithinProjects \in BOOLEAN
    /\ supportSymlinks \in BOOLEAN
    /\ errorHandler \in BOOLEAN
    /\ pc = "scan"
    /\ baseIdx = 1
    /\ projects = <<>>
    /\ seen = {}
    /\ reported = <<>>
    /\ walks = <<>>
    /\ result = [projects |-> <<>>, err |-> "unset"]
    /\ home = HomeSet
    /\ cfg = DefaultConfig
    /\ favFile = NoProjectsFile
    /\ cacheFile = NoCacheFile
    /\ cmd = Idle
    /\ out = NoOutcome
    /\ steps = 0

\* ---------------------------------------------------------------- actions
ScanBaseNotExist_Fatal ==
    /\ pc = "scan"
    /\ baseIdx <= Len(baseFolders)
    /\ StatNotExist(baseFolders[baseIdx])
    /\ reported' = logError(reported,
                       <<Report(baseFolders[baseIdx], "base folder does not exist")>>)
    /\ walks' = Append(walks, NoWalk)
    /\ baseIdx' = Len(baseFolders) + 1
    /\ result' = [projects |-> <<>>, err |-> "base folder does not exist"]
    /\ pc' = "done"
    /\ UNCHANGED <<config, session, projects, seen>>

\* Scan's loop, a base folder that does not exist: log and continue
ScanBaseNotExist ==
    /\ pc = "scan"
    /\ baseIdx <= Len(baseFolders)
    /\ StatNotExist(baseFolders[baseIdx])
    /\ reported' = logError(reported,
                       <<Report(baseFolders[baseIdx], "base folder does not exist")>>)
    /\ walks' = Append(walks, NoWalk)
    /\ baseIdx' = baseIdx + 1
    /\ UNCHANGED <<config, session, pc, projects, seen, result>>

ScanBaseFolder_FailFast ==
    /\ pc = "scan"
    /\ baseIdx <= Len(baseFolders)
    /\ ~StatNotExist(baseFolders[baseIdx])
    /\ LET walk   == scanFolder(baseFolders[baseIdx], 0, FALSE)
           failed == walk.errors # <<>>
           merged == appendUnseen(projects, seen, walk.projects)
       IN  /\ reported' = logError(reported, walk.errors)
           /\ walks' = Append(walks, IF failed THEN [walk EXCEPT !.projects = <<>>] ELSE walk)
           /\ projects' = IF failed THEN projects ELSE merged.projects
           /\ seen' = IF failed THEN seen ELSE merged.seen
    /\ baseIdx' = baseIdx + 1
    /\ UNCHANGED <<config, session, pc, result>>

\* Scan's loop, a base folder that exists: scanFolder, then append what is new
ScanBaseFolder ==
    /\ pc = "scan"
    /\ baseIdx <= Len(baseFolders)
    /\ ~StatNotExist(baseFolders[baseIdx])
    /\ LET walk   == scanFolder(baseFolders[baseIdx], 0, FALSE)
           merged == appendUnseen(projects, seen, walk.projects)
       IN  /\ reported' = logError(reported, walk.errors)
           /\ walks' = Append(walks, walk)
           /\ projects' = merged.projects
           /\ seen' = merged.seen
    /\ baseIdx' = baseIdx + 1
    /\ UNCHANGED <<config, session, pc, result>>

\* after the loop: deduplicateNames(projects); return projects, nil
ScanReturn ==
    /\ pc = "scan"
    /\ baseIdx > Len(baseFolders)
    /\ projects' = deduplicateNames(projects)
    /\ result' = [projects |-> projects', err |-> "nil"]
    /\ pc' = "done"
    /\ UNCHANGED <<config, session, baseIdx, seen, reported, walks>>

Next ==
    \/ ScanBaseNotExist
    \/ ScanBaseFolder
    \/ ScanReturn

Spec == Init /\ [][Next]_vars

\* ------------------------------------------------------ package cmd: list
\* strings.ToLower
ToLowerChar(c) ==
    IF Code(c) >= Code("A") /\ Code(c) <= Code("Z")
    THEN Alphabet[Code(c) + (Code("a") - Code("A"))]
    ELSE c

ToLower(str) == [ i \in 1..Len(str) |-> ToLowerChar(str[i]) ]

\* the loaded lists hold pointers to projects: a reference names the list a
\* project was loaded into and its place there
Ref(kind, i) == [kind |-> kind, index |-> i]

Refs(kind, list) == [ i \in 1..Len(list) |-> Ref(kind, i) ]

\* the project a reference points to, in the loaded lists mem
Deref(mem, r) ==
    IF r.kind = KindFavorite THEN mem.favorites[r.index] ELSE mem.cache[r.kind][r.index]

DerefAll(mem, refs) == [ i \in 1..Len(refs) |-> Deref(mem, refs[i]) ]

\* TypeFilter.ShowAll
ShowAll(filter) == filter = {}

\* what LoadFilteredProjects loads: favorites and cache, each only when asked for
Loaded(filter) ==
    [favorites |-> IF ShowAll(filter) \/ KindFavorite \in filter
                   THEN LoadProjects(favFile) ELSE <<>>,
     cache     |-> IF ShowAll(filter) \/ filter \cap KindSet # {}
                   THEN LoadCache(cacheFile) ELSE EmptyCache]

LoadFilteredProjects_CacheFirst(mem, filter) ==
    LET take(kind, list) == IF ShowAll(filter) \/ kind \in filter
                            THEN Refs(kind, list) ELSE <<>>
    IN  take(KindGit, mem.cache[KindGit])
        \o take(KindSVN, mem.cache[KindSVN])
        \o take(KindMercurial, mem.cache[KindMercurial])
        \o take(KindVSCode, mem.cache[KindVSCode])
        \o take(KindAny, mem.cache[KindAny])
        \o take(KindFavorite, mem.favorites)

\* LoadFilteredProjects: the slice of pointers it returns
LoadFilteredProjects(mem, filter) ==
    LET take(kind, list) == IF ShowAll(filter) \/ kind \in filter
                            THEN Refs(kind, list) ELSE <<>>
    IN  take(KindFavorite, mem.favorites)
        \o take(KindGit, mem.cache[KindGit])
        \o take(KindSVN, mem.cache[KindSVN])
        \o take(KindMercurial, mem.cache[KindMercurial])
        \o take(KindVSCode, mem.cache[KindVSCode])
        \o take(KindAny, mem.cache[KindAny])

\* FilterEnabled: a new slice of the pointers to enabled projects
FilterEnabled(mem, refs) == SelectSeq(refs, LAMBDA r : Deref(mem, r).Enabled)

\* Project.HasTag
HasTag(p, tag) == \E i \in 1..Len(p.Tags) : p.Tags[i] = tag

\* FilterByTag: the slice itself when no tag is given
FilterByTag(mem, refs, tag) ==
    IF tag = <<>> THEN refs
    ELSE SelectSeq(refs, LAMBDA r : HasTag(Deref(mem, r), tag))

\* the path check of runList: p.Enabled = false through each pointer whose
\* path does not exist
CheckPaths(mem, refs) ==
    LET gone(kind, i) ==
            \E j \in 1..Len(refs) :
                /\ refs[j] = Ref(kind, i)
                /\ StatNotExist(ParsePath(Deref(mem, refs[j]).RootPath))
        mark(kind, list) ==
            [ i \in 1..Len(list) |->
                IF gone(kind, i) THEN [list[i] EXCEPT !.Enabled = FALSE] ELSE list[i] ]
    IN  [favorites |-> mark(KindFavorite, mem.favorites),
         cache     |-> [ k \in KindSet |-> mark(k, mem.cache[k]) ]]

\* the less function sortProjects hands to sort.Slice
SortLess(mem, order, a, b) ==
    CASE order = "Name" -> NameLess(ToLower(Deref(mem, a).Name), ToLower(Deref(mem, b).Name))
      [] order = "Path" -> NameLess(ToLower(Deref(mem, a).RootPath),
                                    ToLower(Deref(mem, b).RootPath))
      [] OTHER          -> FALSE

RECURSIVE InsertLeft(_, _, _, _)
\* one pass of the insertion sort: x moves left while it is less than its
\* left neighbour
InsertLeft(mem, order, sorted, x) ==
    IF sorted = <<>> \/ ~SortLess(mem, order, x, sorted[Len(sorted)])
    THEN Append(sorted, x)
    ELSE Append(InsertLeft(mem, order, SubSeq(sorted, 1, Len(sorted) - 1), x),
                sorted[Len(sorted)])

RECURSIVE InsertionSort(_, _, _, _)
InsertionSort(mem, order, sorted, rest) ==
    IF rest = <<>> THEN sorted
    ELSE InsertionSort(mem, order, InsertLeft(mem, order, sorted, Head(rest)), Tail(rest))

\* sortProjects: sort.Slice sorts a slice of at most 12 elements by insertion
sortProjects(mem, refs, order) ==
    IF order \in {"Name", "Path"} THEN InsertionSort(mem, order, <<>>, refs) ELSE refs

\* the kinds in the order FormatProjectList prints their groups
kindOrder == <<KindFavorite, KindGit, KindSVN, KindMercurial, KindVSCode, KindAny>>

RECURSIVE GroupByKind(_, _, _)
GroupByKind(mem, refs, k) ==
    IF k > Len(kindOrder) THEN <<>>
    ELSE SelectSeq(refs, LAMBDA r : Deref(mem, r).Kind = kindOrder[k])
         \o GroupByKind(mem, refs, k + 1)

\* FormatProjectList: the projects in the order they are printed
FormatProjectList(mem, refs, grouped) ==
    DerefAll(mem, IF grouped THEN GroupByKind(mem, refs, 1) ELSE refs)

\* ------------------------------------ the commands add, edit, remove, scan
\* the file system of the sessions: t/p and t/p/sub hold .git and .svn
SessionNodes ==
    StaticNodes \cup
    { [path |-> Join(d, m), type |-> "dir"] :
        d \in { <<nT, nP>>, <<nT, nP, nSub>> }, m \in { nGit, nSvn } }

\* strings.EqualFold, for the characters of the alphabet
EqualFold(a, b) == ToLower(a) = ToLower(b)

\* ProjectList.FindByName: the index of the first project with that name, 0
\* when there is none
FindByName(list, name) ==
    LET at == { i \in 1..Len(list) : EqualFold(list[i].Name, name) }
    IN  IF at = {} THEN 0 ELSE CHOOSE i \in at : \A j \in at : i <= j

\* ProjectList.Remove: the list without the first project with that name
Remove(list, name) ==
    LET i == FindByName(list, name)
    IN  SubSeq(list, 1, i - 1) \o SubSeq(list, i + 1, Len(list))

\* what runAdd does with the favorites list: the error it returns and the
\* list it saves (path: args[0], or the working directory when empty)
addProject(list, path, name, tags, enabled) ==
    LET projectPath == Abs(IF path = <<>> THEN PathString(Cwd) ELSE path)
        projectName == IF name = <<>> THEN Base(ParsePath(projectPath)) ELSE name
        project     == [Name |-> projectName, RootPath |-> projectPath, Tags |-> tags,
                        Enabled |-> enabled, Kind |-> KindFavorite]
    IN  IF StatType(ParsePath(projectPath)) = "none"
        THEN [err |-> "path does not exist", list |-> list]
        ELSE IF StatType(ParsePath(projectPath)) # "dir"
        THEN [err |-> "path is not a directory", list |-> list]
        ELSE IF \E i \in 1..Len(list) :
                   list[i].RootPath = projectPath \/ list[i].Name = projectName
        THEN [err |-> "project already exists", list |-> list]
        ELSE [err |-> "nil", list |-> Append(list, project)]

\* strconv.ParseBool
ParseBool(str) ==
    IF str \in {"1", "t", "T", "TRUE", "true", "True"}
    THEN [err |-> "nil", value |-> TRUE]
    ELSE IF str \in {"0", "f", "F", "FALSE", "false", "False"}
    THEN [err |-> "nil", value |-> FALSE]
    ELSE [err |-> "invalid syntax", value |-> FALSE]

\* what runEdit does with the favorites list: the error it returns and the
\* list it holds in memory when it returns, which it saves when there is no
\* error (an empty flag is a flag that was not given)
editProject(list, name, newName, newPath, newEnabled) ==
    LET i       == FindByName(list, name)
        absPath == Abs(newPath)
        renamed == IF newName # <<>> THEN [list EXCEPT ![i].Name = newName] ELSE list
        moved   == IF newPath # <<>> THEN [renamed EXCEPT ![i].RootPath = absPath]
                   ELSE renamed
        toggled == IF newEnabled # ""
                   THEN [moved EXCEPT ![i].Enabled = ParseBool(newEnabled).value]
                   ELSE moved
    IN  IF i = 0 THEN [err |-> "project not found", list |-> list]
        ELSE IF newName # <<>> /\ FindByName(list, newName) \notin {0, i}
        THEN [err |-> "project already exists", list |-> list]
        ELSE IF newPath # <<>> /\ StatType(ParsePath(absPath)) = "none"
        THEN [err |-> "path does not exist", list |-> renamed]
        ELSE IF newPath # <<>> /\ StatType(ParsePath(absPath)) # "dir"
        THEN [err |-> "path is not a directory", list |-> renamed]
        ELSE IF newEnabled # "" /\ ParseBool(newEnabled).err # "nil"
        THEN [err |-> "--enabled must be a boolean value", list |-> moved]
        ELSE IF newName = <<>> /\ newPath = <<>> /\ newEnabled = ""
        THEN [err |-> "no changes specified", list |-> list]
        ELSE [err |-> "nil", list |-> toggled]

\* Project.AddTag
AddTag(p, tag) == IF ~HasTag(p, tag) THEN [p EXCEPT !.Tags = Append(@, tag)] ELSE p

\* Project.RemoveTag: the first occurrence of the tag goes
RemoveTag(p, tag) ==
    IF ~HasTag(p, tag) THEN p
    ELSE LET i == CHOOSE k \in 1..Len(p.Tags) :
                      p.Tags[k] = tag /\ \A j \in 1..(k - 1) : p.Tags[j] # tag
         IN  [p EXCEPT !.Tags = SubSeq(@, 1, i - 1) \o SubSeq(@, i + 1, Len(@))]

\* what runTagAdd does with the favorites list: the error it returns and the
\* list it saves
tagAdd(list, name, tag) ==
    LET tagName == TrimSpace(tag)
        i       == FindByName(list, name)
    IN  IF tagName = <<>> THEN [err |-> "tag name cannot be empty", list |-> list]
        ELSE IF i = 0 THEN [err |-> "project not found", list |-> list]
        ELSE IF HasTag(list[i], tagName)
        THEN [err |-> "project already has tag", list |-> list]
        ELSE [err |-> "nil", list |-> [list EXCEPT ![i] = AddTag(@, tagName)]]

\* what runTagRemove does with the favorites list
tagRemove(list, name, tag) ==
    LET tagName == TrimSpace(tag)
        i       == FindByName(list, name)
    IN  IF tagName = <<>> THEN [err |-> "tag name cannot be empty", list |-> list]
        ELSE IF i = 0 THEN [err |-> "project not found", list |-> list]
        ELSE IF ~HasTag(list[i], tagName)
        THEN [err |-> "project does not have tag", list |-> list]
        ELSE [err |-> "nil", list |-> [list EXCEPT ![i] = RemoveTag(@, tagName)]]

\* the base folders runScan hands to the scanner of a kind
scanBaseFolders(kind, args) == IF Len(args) > 0 THEN args ELSE cfg.BaseFolders[kind]

\* the depth runScan hands to the scanner of a kind
scanMaxDepth(kind, depth) == IF depth > 0 THEN depth ELSE cfg.MaxDepth[kind]

\* Scanner.SetBaseFolders
SetBaseFolders(folders) == [ i \in 1..Len(folders) |-> ParsePath(ExpandAll(folders)[i]) ]

\* the projects Scan returned, their paths as the strings they stand for
scanned(ps) == [ i \in 1..Len(ps) |-> [ps[i] EXCEPT !.RootPath = PathString(ps[i].RootPath)] ]

\* ------------------------------------------- package paths, run on its own
\* a scanner that does not run: the fields NewScanner sets, nothing scanned
ScannerIdleOn(nodes) ==
    /\ fs = nodes
    /\ unreadable = {}
    /\ baseFolders = <<>>
    /\ ignoredFolders = <<nOut>>
    /\ maxDepth = 4
    /\ scannerType = KindGit
    /\ ignoreWithinProjects = FALSE
    /\ supportSymlinks = FALSE
    /\ errorHandler = FALSE
    /\ pc = "idle"
    /\ baseIdx = 1
    /\ projects = <<>>
    /\ seen = {}
    /\ reported = <<>>
    /\ walks = <<>>
    /\ result = [projects |-> <<>>, err |-> "unset"]

ScannerIdle == ScannerIdleOn(StaticNodes)

scanner == <<fs, unreadable, baseFolders, ignoredFolders, maxDepth, scannerType,
             ignoreWithinProjects, supportSymlinks, errorHandler, pc, baseIdx,
             projects, seen, reported, walks, result>>

\* what os.UserHomeDir may return
HomeChoices ==
    { [err |-> TRUE,  dir |-> <<>>],
      [err |-> FALSE, dir |-> <<"/", "t">>],
      [err |-> FALSE, dir |-> <<"/", "t", "/", "x">>] }

\* the pieces the path strings are made of
PathSegments ==
    { sTilde, sHomeLower, sHomeUpper, <<"/", "t">>, <<"/", "x">>, <<"t">> }

RECURSIVE Concat(_)
Concat(ss) == IF ss = <<>> THEN <<>> ELSE Head(ss) \o Concat(Tail(ss))

PathStrings == { Concat(ss) : ss \in SeqsUpTo(PathSegments, MaxSegments) }

InitPaths ==
    /\ ScannerIdle
    /\ home \in HomeChoices
    /\ cfg = DefaultConfig
    /\ favFile = NoProjectsFile
    /\ cacheFile = NoCacheFile
    /\ \E s \in PathStrings : cmd = [name |-> "paths", path |-> s]
    /\ out = NoOutcome
    /\ steps = 0

\* paths.Expand(path)
CallExpand ==
    /\ cmd.name = "paths"
    /\ out.name = "none"
    /\ out' = [name |-> "Expand", err |-> "nil", path |-> Expand(cmd.path)]
    /\ steps' = steps + 1
    /\ UNCHANGED <<scanner, home, cfg, favFile, cacheFile, cmd>>

\* paths.Collapse(path)
CallCollapse ==
    /\ cmd.name = "paths"
    /\ out.name = "none"
    /\ out' = [name |-> "Collapse", err |-> "nil", path |-> Collapse(cmd.path)]
    /\ steps' = steps + 1
    /\ UNCHANGED <<scanner, home, cfg, favFile, cacheFile, cmd>>

\* paths.Expand(paths.Collapse(path))
CallExpandCollapse ==
    /\ cmd.name = "paths"
    /\ out.name = "none"
    /\ out' = [name |-> "ExpandCollapse", err |-> "nil",
               path |-> Expand(Collapse(cmd.path))]
    /\ steps' = steps + 1
    /\ UNCHANGED <<scanner, home, cfg, favFile, cacheFile, cmd>>

NextPaths ==
    \/ CallExpand
    \/ CallCollapse
    \/ CallExpandCollapse

SpecPaths == InitPaths /\ [][NextPaths]_vars

\* ----------------------------------------- package storage, run on its own
tWork == <<"W", "o", "r", "k">>

\* the projects the lists handed to the storage are made of: paths inside
\* and outside the home directory /t, one that only shares its first
\* characters with it, and the relative paths a scan of "." stores for the
\* directories p/sub and ~x
ProjectChoices ==
    { [Name |-> nApi, RootPath |-> <<"/", "t", "/", "p">>, Tags |-> <<>>,
       Enabled |-> TRUE, Kind |-> KindFavorite],
      [Name |-> nP, RootPath |-> <<"/", "x">>, Tags |-> <<tWork>>,
       Enabled |-> FALSE, Kind |-> KindGit],
      [Name |-> nApi, RootPath |-> <<"/", "t", "x">>, Tags |-> <<>>,
       Enabled |-> TRUE, Kind |-> KindAny],
      [Name |-> nT, RootPath |-> <<"/", "t">>, Tags |-> <<tWork>>,
       Enabled |-> TRUE, Kind |-> KindSVN],
      [Name |-> nSub, RootPath |-> <<"p", "/", "s", "u", "b">>, Tags |-> <<>>,
       Enabled |-> FALSE, Kind |-> KindFavorite],
      [Name |-> <<"~", "x">>, RootPath |-> <<"~", "x">>, Tags |-> <<>>,
       Enabled |-> TRUE, Kind |-> KindGit] }

InitStore ==
    /\ ScannerIdle
    /\ home \in HomeChoices
    /\ cfg = DefaultConfig
    /\ favFile = NoProjectsFile
    /\ cacheFile = NoCacheFile
    /\ \E list \in SeqsUpTo(ProjectChoices, MaxStored), kind \in KindSet :
          cmd = [name |-> "store", favorites |-> list,
                 cache |-> [EmptyCache EXCEPT ![kind] = list]]
    /\ out = NoOutcome
    /\ steps = 0

\* store.SaveProjects(favorites)
CallSaveProjects ==
    /\ cmd.name = "store"
    /\ favFile' = SaveProjects(cmd.favorites)
    /\ out' = [name |-> "SaveProjects", err |-> "nil"]
    /\ UNCHANGED <<scanner, home, cfg, cacheFile, cmd, steps>>

\* store.LoadProjects()
CallLoadProjects ==
    /\ cmd.name = "store"
    /\ out' = [name |-> "LoadProjects", err |-> "nil", projects |-> LoadProjects(favFile)]
    /\ UNCHANGED <<scanner, home, cfg, favFile, cacheFile, cmd, steps>>

\* store.SaveCache(cache)
CallSaveCache ==
    /\ cmd.name = "store"
    /\ cacheFile' = SaveCache(cmd.cache)
    /\ out' = [name |-> "SaveCache", err |-> "nil"]
    /\ UNCHANGED <<scanner, home, cfg, favFile, cmd, steps>>

\* store.LoadCache()
CallLoadCache ==
    /\ cmd.name = "store"
    /\ out' = [name |-> "LoadCache", err |-> "nil", cache |-> LoadCache(cacheFile)]
    /\ UNCHANGED <<scanner, home, cfg, favFile, cacheFile, cmd, steps>>

\* store.ClearCache() (before: the cache file the call found)
CallClearCache ==
    /\ cmd.name = "store"
    /\ cacheFile' = ClearCache(cacheFile)
    /\ out' = [name |-> "ClearCache", err |-> "nil", before |-> cacheFile]
    /\ UNCHANGED <<scanner, home, cfg, favFile, cmd, steps>>

NextStore ==
    \/ CallSaveProjects
    \/ CallLoadProjects
    \/ CallSaveCache
    \/ CallLoadCache
    \/ CallClearCache

SpecStore == InitStore /\ [][NextStore]_vars

\* ---------------------------------------------------- the list command
\* the records the stored lists are made of; /t/m does not exist
StoredChoices ==
    { [name |-> nApi, rootPath |-> <<"~", "/", "a", "p", "i">>, tags |-> <<>>,
       enabled |-> TRUE],
      [name |-> nP, rootPath |-> <<"~", "/", "p">>, tags |-> <<tWork>>,
       enabled |-> FALSE],
      [name |-> nGone, rootPath |-> <<"~", "/", "m">>, tags |-> <<tWork>>,
       enabled |-> TRUE],
      [name |-> <<"A", "p", "i">>, rootPath |-> <<"/", "t", "/", "o", "u", "t", "/", "a", "p", "i">>,
       tags |-> <<>>, enabled |-> TRUE] }

\* the records the cached git and vscode lists are made of
CachedChoices ==
    { [name |-> nGone, rootPath |-> <<"~", "/", "m">>, tags |-> <<tWork>>,
       enabled |-> TRUE] }

\* the type filters of the list command that are tried
FilterChoices == { {}, {KindFavorite}, {KindGit, KindAny}, {KindSVN, KindVSCode} }

SortChoices == { "Name", "Path", "Saved" }

InitList ==
    /\ ScannerIdle
    /\ home = HomeSet
    /\ \E check \in BOOLEAN, order \in SortChoices :
          cfg = [DefaultConfig EXCEPT !.CheckInvalidPaths = check, !.SortList = order]
    /\ \E f \in SeqsUpTo(StoredChoices, MaxStored), g \in SeqsUpTo(CachedChoices, 1) :
          /\ favFile = [exists |-> TRUE, projects |-> f]
          /\ cacheFile = [exists |-> TRUE,
                          buckets |-> [EmptyCache EXCEPT ![KindGit] = g,
                                                         ![KindVSCode] = g,
                                                         ![KindAny] = f]]
    /\ \E filter \in FilterChoices, all \in BOOLEAN, tag \in {<<>>, tWork},
          grouped \in BOOLEAN :
          cmd = [name |-> "list", filter |-> filter, all |-> all, tag |-> tag,
                 grouped |-> grouped]
    /\ out = NoOutcome
    /\ steps = 0

\* runList with the flags filter, listAll, listTag and grouped of the command
\* line (repeat: whether the same command printed the same list before)
RunList ==
    /\ cmd.name = "list"
    /\ LET loaded  == Loaded(cmd.filter)
           merged  == LoadFilteredProjects(loaded, cmd.filter)
           enabled == IF ~cmd.all THEN FilterEnabled(loaded, merged) ELSE merged
           tagged  == FilterByTag(loaded, enabled, cmd.tag)
           after   == IF cfg.CheckInvalidPaths THEN CheckPaths(loaded, tagged)
                      ELSE loaded
           sorted  == sortProjects(after, tagged, cfg.SortList)
           shown   == FormatProjectList(after, sorted, cmd.grouped)
       IN  out' = [name   |-> "list",
                   err    |-> "nil",
                   loaded |-> loaded,
                   after  |-> after,
                   merged |-> DerefAll(loaded, merged),
                   shown  |-> shown,
                   repeat |-> IF out.name = "list"
                              THEN IF out.shown = shown THEN "same" ELSE "differs"
                              ELSE "first"]
    /\ UNCHANGED <<scanner, home, cfg, favFile, cacheFile, cmd, steps>>

NextList == RunList

SpecList == InitList /\ [][NextList]_vars

\* ---------------------------------------------------- the select command
\* strings.Contains
StringsContains(s, substr) == Index(s, substr) # 0

\* the places of the projects whose lower-cased name contains the lower-cased
\* query, in the order of the slice
PartialMatches(mem, refs, name) ==
    SelectSeq([ i \in 1..Len(refs) |-> i ],
              LAMBDA i : StringsContains(ToLower(Deref(mem, refs[i]).Name), ToLower(name)))

\* a lookup that never tries the exact match
FindProjectByName_PartialOnly(mem, refs, name) ==
    LET matches == PartialMatches(mem, refs, name)
    IN  IF Len(matches) = 1 THEN [project |-> matches[1], matches |-> <<>>, err |-> "nil"]
        ELSE IF Len(matches) > 1
        THEN [project |-> 0, matches |-> matches, err |-> "multiple projects match"]
        ELSE [project |-> 0, matches |-> <<>>, err |-> "not found"]

\* FindProjectByName: the place in the slice of the project it returns (0 for
\* nil), the places of the matches it returns, and the error
FindProjectByName(mem, refs, name) ==
    LET exact   == { i \in 1..Len(refs) : EqualFold(Deref(mem, refs[i]).Name, name) }
        matches == PartialMatches(mem, refs, name)
    IN  IF exact # {}
        THEN [project |-> CHOOSE i \in exact : \A j \in exact : i <= j,
              matches |-> <<>>, err |-> "nil"]
        ELSE IF Len(matches) = 1
        THEN [project |-> matches[1], matches |-> <<>>, err |-> "nil"]
        ELSE IF Len(matches) > 1
        THEN [project |-> 0, matches |-> matches, err |-> "multiple projects match"]
        ELSE [project |-> 0, matches |-> <<>>, err |-> "not found"]

DigitChars == <<"0", "1", "2", "3", "4", "5", "6", "7", "8", "9">>

DigitValue(c) == (CHOOSE i \in 1..Len(DigitChars) : DigitChars[i] = c) - 1

RECURSIVE DecimalValue(_)
DecimalValue(s) ==
    IF s = <<>> THEN 0
    ELSE DecimalValue(SubSeq(s, 1, Len(s) - 1)) * 10 + DigitValue(s[Len(s)])

\* strconv.Atoi: an optional sign and one or more decimal digits
Atoi(s) ==
    LET signed == s # <<>> /\ s[1] \in {"+", "-"}
        body   == IF signed THEN Tail(s) ELSE s
        digits == { DigitChars[i] : i \in 1..Len(DigitChars) }
    IN  IF body = <<>> \/ \E i \in 1..Len(body) : body[i] \notin digits
        THEN [err |-> TRUE, n |-> 0]
        ELSE [err |-> FALSE,
              n   |-> IF signed /\ s[1] = "-" THEN 0 - DecimalValue(body)
                      ELSE DecimalValue(body)]

RECURSIVE formatGroups_Restart(_, _, _, _)
\* a listing whose numbering starts again in every group
formatGroups_Restart(mem, refs, k, currentIndex) ==
    IF k > Len(kindOrder) THEN <<>>
    ELSE LET ps == SelectSeq(refs, LAMBDA r : Deref(mem, r).Kind = kindOrder[k])
         IN  [ i \in 1..Len(ps) |-> [index |-> i, ref |-> ps[i]] ]
             \o formatGroups_Restart(mem, refs, k + 1, currentIndex + Len(ps))

RECURSIVE formatGroups(_, _, _, _)
\* the grouped branch of FormatProjectList from the group of kindOrder[k] on:
\* one line for each project, with the index printed in front of it
formatGroups(mem, refs, k, currentIndex) ==
    IF k > Len(kindOrder) THEN <<>>
    ELSE LET ps == SelectSeq(refs, LAMBDA r : Deref(mem, r).Kind = kindOrder[k])
         IN  [ i \in 1..Len(ps) |-> [index |-> currentIndex + (i - 1), ref |-> ps[i]] ]
             \o formatGroups(mem, refs, k + 1, currentIndex + Len(ps))

\* FormatProjectList with ShowIndex: the lines it prints; indexedProjects is
\* the projects of these lines, in their order
formatLines(mem, refs, grouped) ==
    IF grouped THEN formatGroups(mem, refs, 1, 1)
    ELSE [ i \in 1..Len(refs) |-> [index |-> 1 + (i - 1), ref |-> refs[i]] ]

\* the selection of the earlier select command: the number entered is the
\* place in the slice, counted from 0
pick_ZeroBased(indexedProjects, n) ==
    IF n < 0 \/ n >= Len(indexedProjects) THEN 0 ELSE n + 1

\* the place in indexedProjects of the project selected by the number n, 0
\* when the number is out of range
pick(indexedProjects, n) ==
    LET index == n - 1
    IN  IF index < 0 \/ index >= Len(indexedProjects) THEN 0 ELSE index + 1

\* selectProjectForSelect: the lines shown, and what the line read from the
\* terminal leads to (quit: os.Exit(0))
selectProjectForSelect(mem, refs, order, grouped, input) ==
    LET sorted  == sortProjects(mem, refs, order)
        lines   == formatLines(mem, sorted, grouped)
        indexed == [ i \in 1..Len(lines) |-> lines[i].ref ]
        line    == TrimSpace(input)
        number  == Atoi(line)
        at      == pick(indexed, number.n)
    IN  IF line \in { <<"q">>, <<"Q">> }
        THEN [sorted |-> sorted, lines |-> lines, quit |-> TRUE, err |-> "nil",
              selected |-> <<>>]
        ELSE IF number.err \/ at = 0
        THEN [sorted |-> sorted, lines |-> lines, quit |-> FALSE,
              err |-> "invalid selection", selected |-> <<>>]
        ELSE [sorted |-> sorted, lines |-> lines, quit |-> FALSE, err |-> "nil",
              selected |-> <<indexed[at]>>]

\* the project names given to select: p is a name and a part of api, API is
\* api and Api in other letters, a and pi are parts of names, z is in no name
QueryChoices ==
    { nP, <<"A", "P", "I">>, <<"a">>, <<"p", "i">>, <<"z">>, <<>> }

\* the lines typed at the prompt
InputChoices ==
    { <<"0">>, <<"1">>, <<"2">>, <<" ", "3", " ">>, <<"4">>, <<"9">>, <<"1", "0">>,
      <<"-", "1">>, <<"q">>, <<"x">>, <<"1", "x">>, <<>> }

\* the records the stored lists of select are made of; /t/m does not exist
SelectStoredChoices ==
    { [name |-> nApi, rootPath |-> <<"~", "/", "a", "p", "i">>, tags |-> <<>>,
       enabled |-> TRUE],
      [name |-> nP, rootPath |-> <<"~", "/", "p">>, tags |-> <<tWork>>,
       enabled |-> TRUE],
      [name |-> nGone, rootPath |-> <<"~", "/", "m">>, tags |-> <<>>,
       enabled |-> TRUE],
      [name |-> <<"A", "p", "i">>, rootPath |-> <<"/", "t", "/", "o", "u", "t", "/", "a", "p", "i">>,
       tags |-> <<>>, enabled |-> TRUE],
      [name |-> nSub, rootPath |-> <<"~", "/", "p", "/", "s", "u", "b">>, tags |-> <<>>,
       enabled |-> FALSE] }

\* the command lines of select that are tried
SelectChoices ==
    { [args |-> <<q>>, input |-> <<>>, grouped |-> FALSE] : q \in QueryChoices }
    \cup { [args |-> <<>>, input |-> i, grouped |-> g] : i \in InputChoices, g \in BOOLEAN }

InitSelect ==
    /\ ScannerIdle
    /\ home = HomeSet
    /\ \E order \in SortChoices : cfg = [DefaultConfig EXCEPT !.SortList = order]
    /\ \E f \in SeqsUpTo(SelectStoredChoices, MaxStored), g \in SeqsUpTo(CachedChoices, 1) :
          /\ favFile = [exists |-> TRUE, projects |-> f]
          /\ cacheFile = [exists |-> TRUE,
                          buckets |-> [EmptyCache EXCEPT ![KindGit] = f,
                                                         ![KindVSCode] = g,
                                                         ![KindAny] = f]]
    /\ \E line \in SelectChoices, filter \in { {}, {KindFavorite, KindAny} } :
          cmd = [name |-> "select", filter |-> filter, tag |-> <<>>, args |-> line.args,
                 input |-> line.input, grouped |-> line.grouped]
    /\ out = NoOutcome
    /\ steps = 0

\* FindProjectByName(allProjects, args[0]) on the projects select loads
CallFindProjectByName ==
    /\ cmd.name = "select"
    /\ Len(cmd.args) > 0
    /\ LET loaded == Loaded(cmd.filter)
           all    == FilterByTag(loaded,
                                 FilterEnabled(loaded, LoadFilteredProjects(loaded, cmd.filter)),
                                 cmd.tag)
           found  == FindProjectByName(loaded, all, cmd.args[1])
       IN  out' = [name     |-> "FindProjectByName",
                   err      |-> found.err,
                   projects |-> DerefAll(loaded, all),
                   query    |-> cmd.args[1],
                   project  |-> found.project,
                   matches  |-> found.matches]
    /\ UNCHANGED <<scanner, home, cfg, favFile, cacheFile, cmd, steps>>

\* runSelect: by name when a name is given, from the numbered list otherwise
\* (asked: what selectProjectForSelect returned, with the projects as the
\* pointers they are)
RunSelect ==
    /\ cmd.name = "select"
    /\ \E loaded \in { Loaded(cmd.filter) } :
       \E all \in { FilterByTag(loaded,
                                FilterEnabled(loaded, LoadFilteredProjects(loaded, cmd.filter)),
                                cmd.tag) } :
       \E found \in { IF Len(cmd.args) > 0 THEN FindProjectByName(loaded, all, cmd.args[1])
                      ELSE [project |-> 0, matches |-> <<>>, err |-> "nil"] } :
       \E asked \in { selectProjectForSelect(loaded, all, cfg.SortList, cmd.grouped,
                                             cmd.input) } :
          LET byName == Len(cmd.args) > 0
              chosen == IF byName
                        THEN IF found.project = 0 THEN <<>> ELSE <<all[found.project]>>
                        ELSE asked.selected
              err    == IF byName
                        THEN IF found.err = "multiple projects match"
                             THEN "please be more specific" ELSE found.err
                        ELSE asked.err
              quit   == ~byName /\ asked.quit
              gone   == chosen # <<>>
                        /\ StatNotExist(ParsePath(Deref(loaded, chosen[1]).RootPath))
          IN  out' = [name     |-> "select",
                      args     |-> cmd.args,
                      input    |-> cmd.input,
                      grouped  |-> cmd.grouped,
                      given    |-> DerefAll(loaded, all),
                      err      |-> IF Len(all) = 0 THEN "no projects found"
                                   ELSE IF quit \/ err # "nil" THEN err
                                   ELSE IF gone THEN "project path does not exist"
                                   ELSE "nil",
                      quit     |-> Len(all) # 0 /\ quit,
                      asked    |-> IF Len(all) = 0 \/ byName
                                   THEN [sorted |-> <<>>, lines |-> <<>>, quit |-> FALSE,
                                         err |-> "nil", selected |-> <<>>]
                                   ELSE asked,
                      lines    |-> IF Len(all) = 0 \/ byName THEN <<>>
                                   ELSE [ i \in 1..Len(asked.lines) |->
                                            [index   |-> asked.lines[i].index,
                                             project |-> Deref(loaded, asked.lines[i].ref)] ],
                      selected |-> IF Len(all) = 0 \/ quit \/ err # "nil" THEN <<>>
                                   ELSE <<Deref(loaded, chosen[1])>>,
                      printed  |-> IF Len(all) = 0 \/ quit \/ err # "nil" \/ gone THEN <<>>
                                   ELSE <<Deref(loaded, chosen[1]).RootPath>>]
    /\ UNCHANGED <<scanner, home, cfg, favFile, cacheFile, cmd, steps>>

NextSelect ==
    \/ CallFindProjectByName
    \/ RunSelect

SpecSelect == InitSelect /\ [][NextSelect]_vars

\* ------------------------------------------------------------ the session
\* the configurations of the sessions: the per-kind base folders and maximum
\* depth and the two policy flags as the configuration file gives them
ConfigChoices ==
    { [DefaultConfig EXCEPT !.BaseFolders = [ k \in KindSet |-> b ],
                            !.MaxDepth = [ k \in KindSet |-> d ],
                            !.IgnoreProjectsWithinProjects = f,
                            !.SupportSymlinks = f] :
        b \in { <<>>, << <<"~", "/", "p">> >> }, d \in { -1, 2 }, f \in BOOLEAN }

\* the path arguments of add and edit --path: /t/p, p, /t/api, /t/m
AddPathChoices ==
    { <<"/", "t", "/", "p">>, <<"p">>, <<"/", "t", "/", "a", "p", "i">>,
      <<"/", "t", "/", "m">> }

\* the project names given on the command line
NameChoices == { nP, nApi }

\* the flags of edit that are tried: --name p, --path /t/p, --path api,
\* --enabled=false, none, --name api --path /t/m (a path that does not
\* exist), --name api --path /t/f (a regular file), and
\* --path /t/p --enabled=maybe
EditChoices ==
    { [name |-> nP,   path |-> <<>>,                   enabled |-> ""],
      [name |-> <<>>, path |-> <<"/", "t", "/", "p">>, enabled |-> ""],
      [name |-> <<>>, path |-> <<"a", "p", "i">>,      enabled |-> ""],
      [name |-> <<>>, path |-> <<>>,                   enabled |-> "false"],
      [name |-> <<>>, path |-> <<>>,                   enabled |-> ""],
      [name |-> nApi, path |-> <<"/", "t", "/", "m">>, enabled |-> ""],
      [name |-> nApi, path |-> <<"/", "t", "/", "f">>, enabled |-> ""],
      [name |-> <<>>, path |-> <<"/", "t", "/", "p">>, enabled |-> "maybe"] }

\* the command lines of scan that are tried: scan, scan /t/m p (a base that
\* does not exist and a relative one), scan --svn --depth 1 /t/m p, and
\* scan --depth -1
ScanChoices ==
    { [args |-> <<>>, depth |-> 0, kinds |-> {}],
      [args |-> << <<"/", "t", "/", "m">>, <<"p">> >>, depth |-> 0, kinds |-> {}],
      [args |-> << <<"/", "t", "/", "m">>, <<"p">> >>, depth |-> 1, kinds |-> {KindSVN}],
      [args |-> <<>>, depth |-> -1, kinds |-> {}] }

InitCmd ==
    /\ ScannerIdleOn(SessionNodes)
    /\ home = HomeSet
    /\ cfg \in ConfigChoices
    /\ favFile = NoProjectsFile
    /\ cacheFile = NoCacheFile
    /\ cmd = Idle
    /\ out = NoOutcome
    /\ steps = 0

CanStart == cmd.name = "idle" /\ steps < MaxCommands

\* the command lines of add that are tried: every path with no name, the name
\* p and the name api, add /t/f (a regular file), add /t/p --tag Work --tag Work,
\* and add /t/api --name Api --tag Work
AddChoices ==
    { [path |-> path, name |-> name, tags |-> <<>>] :
        path \in AddPathChoices, name \in {<<>>} \cup NameChoices }
    \cup { [path |-> <<"/", "t", "/", "f">>, name |-> <<>>, tags |-> <<>>],
           [path |-> <<"/", "t", "/", "p">>, name |-> <<>>, tags |-> <<tWork, tWork>>],
           [path |-> <<"/", "t", "/", "a", "p", "i">>, name |-> <<"A", "p", "i">>,
            tags |-> <<tWork>>] }

\* the tags given to tag add and tag remove: Work, and a blank
TagChoices == { tWork, <<" ">> }

\* runAdd
RunAdd ==
    /\ CanStart
    /\ \E line \in AddChoices :
          LET done == addProject(LoadProjects(favFile), line.path, line.name, line.tags,
                                 TRUE)
          IN  /\ out' = [name |-> "add", err |-> done.err]
              /\ favFile' = IF done.err = "nil" THEN SaveProjects(done.list) ELSE favFile
    /\ steps' = steps + 1
    /\ UNCHANGED <<scanner, home, cfg, cacheFile, cmd>>

RunEdit_SaveFirst ==
    /\ CanStart
    /\ \E name \in NameChoices, new \in EditChoices :
          LET done == editProject(LoadProjects(favFile), name, new.name, new.path,
                                  new.enabled)
          IN  /\ out' = [name |-> "edit", err |-> done.err, memory |-> done.list]
              /\ favFile' = SaveProjects(done.list)
    /\ steps' = steps + 1
    /\ UNCHANGED <<scanner, home, cfg, cacheFile, cmd>>

\* runEdit: every error returns before SaveProjects is reached
RunEdit ==
    /\ CanStart
    /\ \E name \in NameChoices, new \in EditChoices :
          LET done == editProject(LoadProjects(favFile), name, new.name, new.path,
                                  new.enabled)
          IN  /\ out' = [name |-> "edit", err |-> done.err, memory |-> done.list]
              /\ favFile' = IF done.err = "nil" THEN SaveProjects(done.list) ELSE favFile
    /\ steps' = steps + 1
    /\ UNCHANGED <<scanner, home, cfg, cacheFile, cmd>>

\* runRemove
RunRemove ==
    /\ CanStart
    /\ \E name \in NameChoices :
          LET list == LoadProjects(favFile)
          IN  IF FindByName(list, name) = 0
              THEN /\ out' = [name |-> "remove", err |-> "project not found"]
                   /\ favFile' = favFile
              ELSE /\ out' = [name |-> "remove", err |-> "nil"]
                   /\ favFile' = SaveProjects(Remove(list, name))
    /\ steps' = steps + 1
    /\ UNCHANGED <<scanner, home, cfg, cacheFile, cmd>>

\* runTagAdd
RunTagAdd ==
    /\ CanStart
    /\ \E name \in NameChoices, tag \in TagChoices :
          LET done == tagAdd(LoadProjects(favFile), name, tag)
          IN  /\ out' = [name |-> "tag add", err |-> done.err, project |-> name,
                          tag |-> TrimSpace(tag)]
              /\ favFile' = IF done.err = "nil" THEN SaveProjects(done.list) ELSE favFile
    /\ steps' = steps + 1
    /\ UNCHANGED <<scanner, home, cfg, cacheFile, cmd>>

\* runTagRemove
RunTagRemove ==
    /\ CanStart
    /\ \E name \in NameChoices, tag \in TagChoices :
          LET done == tagRemove(LoadProjects(favFile), name, tag)
          IN  /\ out' = [name |-> "tag remove", err |-> done.err, project |-> name,
                          tag |-> TrimSpace(tag)]
              /\ favFile' = IF done.err = "nil" THEN SaveProjects(done.list) ELSE favFile
    /\ steps' = steps + 1
    /\ UNCHANGED <<scanner, home, cfg, cacheFile, cmd>>

\* runScan up to the first kind: a negative --depth is rejected; with no type
\* flag every kind is scanned; the cache starts empty
ScanStart ==
    /\ CanStart
    /\ \E line \in ScanChoices :
          IF line.depth < 0
          THEN /\ out' = [name |-> "scan", err |-> "--depth must be a non-negative integer",
                          depth |-> line.depth, handed |-> {}]
               /\ cmd' = cmd
          ELSE /\ cmd' = [name   |-> "scan",
                          args   |-> line.args,
                          depth  |-> line.depth,
                          kinds  |-> IF line.kinds = {} THEN KindSet ELSE line.kinds,
                          next   |-> 1,
                          cache  |-> EmptyCache,
                          handed |-> {}]
               /\ out' = [name |-> "scan", err |-> "running",
                          depth |-> line.depth, handed |-> {}]
    /\ steps' = steps + 1
    /\ UNCHANGED <<scanner, home, cfg, favFile, cacheFile>>

\* the kind whose block of runScan comes next
ScanKind == CacheKinds[cmd.next]

\* runScan is between two Scan calls, with a kind left
BetweenScans == cmd.name = "scan" /\ pc = "idle" /\ cmd.next <= Len(CacheKinds)

\* a kind that is not asked for, or has no base folders: nothing is scanned
ScanSkipKind ==
    /\ BetweenScans
    /\ \/ ScanKind \notin cmd.kinds
       \/ Len(scanBaseFolders(ScanKind, cmd.args)) = 0
    /\ cmd' = [cmd EXCEPT !.next = @ + 1]
    /\ UNCHANGED <<scanner, home, cfg, favFile, cacheFile, out, steps>>

\* a kind's block of runScan up to s.Scan(): NewScanner and the setters; the
\* two policy flags are set for git only
ScanConfigure ==
    /\ BetweenScans
    /\ ScanKind \in cmd.kinds
    /\ Len(scanBaseFolders(ScanKind, cmd.args)) > 0
    /\ baseFolders' = SetBaseFolders(scanBaseFolders(ScanKind, cmd.args))
    /\ ignoredFolders' = cfg.IgnoredFolders[ScanKind]
    /\ maxDepth' = scanMaxDepth(ScanKind, cmd.depth)
    /\ scannerType' = ScanKind
    /\ ignoreWithinProjects' =
          IF ScanKind = KindGit THEN cfg.IgnoreProjectsWithinProjects ELSE FALSE
    /\ supportSymlinks' = IF ScanKind = KindGit THEN cfg.SupportSymlinks ELSE FALSE
    /\ errorHandler' = FALSE
    /\ pc' = "scan"
    /\ baseIdx' = 1
    /\ projects' = <<>>
    /\ seen' = {}
    /\ reported' = <<>>
    /\ walks' = <<>>
    /\ result' = [projects |-> <<>>, err |-> "unset"]
    /\ cmd' = [cmd EXCEPT !.handed = @ \cup {scanMaxDepth(ScanKind, cmd.depth)}]
    /\ UNCHANGED <<fs, unreadable, home, cfg, favFile, cacheFile, out, steps>>

\* the scanner of a block of runScan goes out of scope: only the file system
\* stays
ScannerGone ==
    /\ baseFolders' = <<>>
    /\ ignoredFolders' = <<nOut>>
    /\ maxDepth' = 4
    /\ scannerType' = KindGit
    /\ ignoreWithinProjects' = FALSE
    /\ supportSymlinks' = FALSE
    /\ errorHandler' = FALSE
    /\ pc' = "idle"
    /\ baseIdx' = 1
    /\ projects' = <<>>
    /\ seen' = {}
    /\ reported' = <<>>
    /\ walks' = <<>>
    /\ result' = [projects |-> <<>>, err |-> "unset"]
    /\ UNCHANGED <<fs, unreadable>>

\* after s.Scan() returned: the kind's bucket of the cache is what it
\* returned, and the scanner of the block is gone
ScanCollect ==
    /\ cmd.name = "scan"
    /\ pc = "done"
    /\ cmd' = [cmd EXCEPT !.cache[ScanKind] = scanned(result.projects), !.next = @ + 1]
    /\ ScannerGone
    /\ UNCHANGED <<home, cfg, favFile, cacheFile, out, steps>>

\* the end of runScan: the cache is saved when the configuration says so
ScanSave ==
    /\ cmd.name = "scan"
    /\ pc = "idle"
    /\ cmd.next > Len(CacheKinds)
    /\ cacheFile' = IF cfg.CacheProjectsBetweenSessions THEN SaveCache(cmd.cache)
                    ELSE cacheFile
    /\ out' = [name |-> "scan", err |-> "nil", depth |-> cmd.depth, handed |-> cmd.handed]
    /\ cmd' = Idle
    /\ UNCHANGED <<scanner, home, cfg, favFile, steps>>

NextCmd ==
    \/ RunAdd
    \/ RunEdit
    \/ RunRemove
    \/ RunTagAdd
    \/ RunTagRemove
    \/ ScanStart
    \/ ScanSkipKind
    \/ ScanConfigure
    \/ ScanBaseNotExist
    \/ ScanBaseFolder
    \/ ScanReturn
    \/ ScanCollect
    \/ ScanSave

SpecCmd == InitCmd /\ [][NextCmd]_vars

\* the commands that write the favorites, run one after another from an empty
\* projects.json
InitFav ==
    /\ ScannerIdleOn(SessionNodes)
    /\ home = HomeSet
    /\ cfg = DefaultConfig
    /\ favFile = NoProjectsFile
    /\ cacheFile = NoCacheFile
    /\ cmd = Idle
    /\ out = NoOutcome
    /\ steps = 0

NextFav == RunAdd \/ RunEdit \/ RunRemove \/ RunTagAdd \/ RunTagRemove

SpecFav == InitFav /\ [][NextFav]_vars

\* ------------------------------------------- Scan, one call frame at a time
\* the file system of the walks: .git in t/p and t/p/sub, and t/p/sub/up, a
\* symbolic link to t/p, which closes a cycle
WalkNodes ==
    StaticNodes \cup
    { [path |-> <<nT, nP, nGit>>,       type |-> "dir"],
      [path |-> <<nT, nP, nSub, nGit>>, type |-> "dir"],
      [path |-> <<nT, nP, nSub, nUp>>,  type |-> "symlink"] }

\* the base folders of the walks; t/f is a regular file
WalkBaseChoices ==
    { << <<nT>> >>, << <<nT, nP, nSub>>, <<nT>> >>, << <<nT, nGone>>, <<nT, nP>> >>,
      << <<nT, nFile>>, <<nT, nApi>> >> }

\* the frame of a call scanFolder(folder, depth, insideProject) that has not
\* run yet
NewFrame(folder, depth, insideProject) ==
    [folder |-> folder, depth |-> depth, inside |-> insideProject, stage |-> "enter",
     entries |-> <<>>, i |-> 1, projects |-> <<>>]

InitWalk ==
    /\ fs = WalkNodes
    /\ unreadable \in SUBSET UnreadableCandidates
    /\ baseFolders \in WalkBaseChoices
    /\ ignoredFolders \in { <<>>, <<nOut>> }
    /\ maxDepth \in 0..MaxDepthBound
    /\ scannerType \in { KindGit, KindAny }
    /\ ignoreWithinProjects \in BOOLEAN
    /\ supportSymlinks \in BOOLEAN
    /\ errorHandler = TRUE
    /\ pc = "scan"
    /\ baseIdx = 1
    /\ projects = <<>>
    /\ seen = {}
    /\ reported = <<>>
    /\ walks = <<>>
    /\ result = [projects |-> <<>>, err |-> "unset"]
    /\ home = HomeSet
    /\ cfg = DefaultConfig
    /\ favFile = NoProjectsFile
    /\ cacheFile = NoCacheFile
    /\ cmd = Idle
    /\ out = NoOutcome
    /\ steps = 0

\* the frame that runs
Top == cmd.stack[Len(cmd.stack)]

\* a loop that stays at the entry it handled
advance_Stuck(i) == i

\* the range loop of scanFolder goes on to the next entry
advance(i) == i + 1

\* Scan's loop, a base folder that exists: the call scanFolder(baseFolder, 0,
\* false) begins
WalkStart ==
    /\ pc = "scan"
    /\ baseIdx <= Len(baseFolders)
    /\ ~StatNotExist(baseFolders[baseIdx])
    /\ cmd' = [name |-> "scanFolder", stack |-> <<NewFrame(baseFolders[baseIdx], 0, FALSE)>>,
               errors |-> <<>>, visits |-> <<>>]
    /\ pc' = "walk"
    /\ UNCHANGED <<config, home, cfg, favFile, cacheFile, out, steps, baseIdx, projects,
                   seen, reported, walks, result>>

\* the running call returns found: to the frame that called it, or to Scan,
\* which appends what is new and goes on to the next base folder
WalkReturn(found, errors, visits) ==
    IF Len(cmd.stack) = 1
    THEN LET merged == appendUnseen(projects, seen, found)
         IN  /\ projects' = merged.projects
             /\ seen' = merged.seen
             /\ walks' = Append(walks, [projects |-> found, errors |-> errors,
                                        visits |-> visits])
             /\ baseIdx' = baseIdx + 1
             /\ pc' = "scan"
             /\ cmd' = Idle
    ELSE /\ cmd' = [cmd EXCEPT
                      !.stack  = [ k \in 1..(Len(cmd.stack) - 1) |->
                                     IF k = Len(cmd.stack) - 1
                                     THEN [cmd.stack[k] EXCEPT !.projects = @ \o found]
                                     ELSE cmd.stack[k] ],
                      !.errors = errors,
                      !.visits = visits]
         /\ UNCHANGED <<projects, seen, walks, baseIdx, pc>>

\* scanFolder up to its loop: the depth test, isProject, os.ReadDir
WalkEnter ==
    /\ pc = "walk"
    /\ Top.stage = "enter"
    /\ IF tooDeep(Top.depth)
       THEN /\ WalkReturn(<<>>, cmd.errors, cmd.visits)
            /\ reported' = reported
       ELSE \E isProj \in { isProject(Top.folder) } :
            \E entries \in { IF ReadDirFails(Top.folder) THEN <<>> ELSE ReadDir(Top.folder) } :
            LET own    == IF emits(isProj, Top.inside) THEN <<NewProject(Top.folder)>>
                          ELSE <<>>
                inside == passDown(isProj, Top.inside)
                visit  == [folder |-> Top.folder, depth |-> Top.depth,
                           inside |-> Top.inside, isProject |-> isProj, passed |-> inside]
                failed == Report(Top.folder, "failed to read directory")
            IN  IF ReadDirFails(Top.folder)
                THEN /\ reported' = logError(reported, <<failed>>)
                     /\ WalkReturn(own, Append(cmd.errors, failed), Append(cmd.visits, visit))
                ELSE /\ cmd' = [cmd EXCEPT
                                  !.stack[Len(cmd.stack)] =
                                      [Top EXCEPT !.stage = "loop", !.inside = inside,
                                                  !.entries = entries,
                                                  !.projects = own],
                                  !.visits = Append(@, visit)]
                     /\ UNCHANGED <<projects, seen, walks, baseIdx, pc, reported>>
    /\ UNCHANGED <<config, home, cfg, favFile, cacheFile, out, steps, result>>

\* one iteration of the loop of scanFolder: the entry is skipped, or its
\* link does not resolve, or scanFolder is called for it
WalkEntry ==
    /\ pc = "walk"
    /\ Top.stage = "loop"
    /\ Top.i <= Len(Top.entries)
    /\ LET entry   == Top.entries[Top.i]
           name    == entry.name
           joined  == Join(Top.folder, name)
           skip    == \/ ~IsDir(entry)
                      \/ isHidden(name)
                      \/ isIgnored(name)
                      \/ (IsSymlink(entry) /\ ~supportSymlinks)
           badLink == IsSymlink(entry) /\ EvalSymlinksFails(joined)
           subPath == IF IsSymlink(entry) THEN EvalSymlinks(joined) ELSE joined
           failed  == Report(joined, "failed to resolve symlink")
           here    == [Top EXCEPT !.i = advance(@)]
       IN  IF skip
           THEN /\ cmd' = [cmd EXCEPT !.stack[Len(cmd.stack)] = here]
                /\ reported' = reported
           ELSE IF badLink
           THEN /\ cmd' = [cmd EXCEPT !.stack[Len(cmd.stack)] = here,
                                      !.errors = Append(@, failed)]
                /\ reported' = logError(reported, <<failed>>)
           ELSE /\ cmd' = [cmd EXCEPT
                             !.stack = Append([@ EXCEPT ![Len(@)] = here],
                                              NewFrame(subPath, Top.depth + 1, Top.inside))]
                /\ reported' = reported
    /\ UNCHANGED <<config, home, cfg, favFile, cacheFile, out, steps, pc, baseIdx,
                   projects, seen, walks, result>>

\* the loop of scanFolder is over: return projects, nil
WalkLeave ==
    /\ pc = "walk"
    /\ Top.stage = "loop"
    /\ Top.i > Len(Top.entries)
    /\ WalkReturn(Top.projects, cmd.errors, cmd.visits)
    /\ UNCHANGED <<config, home, cfg, favFile, cacheFile, out, steps, reported, result>>

NextWalk ==
    \/ ScanBaseNotExist
    \/ WalkStart
    \/ WalkEnter
    \/ WalkEntry
    \/ WalkLeave
    \/ ScanReturn

SpecWalk == InitWalk /\ [][NextWalk]_vars

\* Scan runs alone in its goroutine and is never suspended for good: a step
\* that can be taken is taken
SpecWalkFair == SpecWalk /\ WF_vars(NextWalk)


\* ------------------------------------------------- two add commands at once
\* Two processes run runAdd against the same storage directory. Each builds
\* its own Storage (NewStorage), so the mutex of one does not hold back the
\* other: the steps of a process are its LoadProjects and its SaveProjects.
Procs == { 1, 2 }

\* the command lines of the two processes: add /t/p --name p,
\* add /t/api --name api, add p --name p, and add /t/m --name api (a path
\* that does not exist)
RaceChoices ==
    { [path |-> <<"/", "t", "/", "p">>,           name |-> nP],
      [path |-> <<"/", "t", "/", "a", "p", "i">>, name |-> nApi],
      [path |-> <<"p">>,                          name |-> nP],
      [path |-> <<"/", "t", "/", "m">>,           name |-> nApi] }

\* projects.json before the two commands: absent, or holding a favorite sub
RaceStoredChoices ==
    { NoProjectsFile,
      [exists |-> TRUE,
       projects |-> << [name |-> nSub, rootPath |-> <<"~", "/", "p", "/", "s", "u", "b">>,
                        tags |-> <<>>, enabled |-> TRUE] >>] }

\* a process that has not started: its command line, the list it holds in
\* memory and the error it returns
NewProc(line) == [pc |-> "load", line |-> line, projects |-> <<>>, err |-> "unset"]

InitRace ==
    /\ ScannerIdleOn(SessionNodes)
    /\ home = HomeSet
    /\ cfg = DefaultConfig
    /\ favFile \in RaceStoredChoices
    /\ cacheFile = NoCacheFile
    /\ \E a, b \in RaceChoices :
          cmd = [name |-> "add", proc |-> [ p \in Procs |-> NewProc(IF p = 1 THEN a ELSE b) ]]
    /\ out = NoOutcome
    /\ steps = 0

\* runAdd up to the save: the path is tested, projects.json is read, the
\* project is tested against the list and appended to it in memory
AddLoad(p) ==
    /\ cmd.name = "add"
    /\ cmd.proc[p].pc = "load"
    /\ \E done \in { addProject(LoadProjects(favFile), cmd.proc[p].line.path,
                                cmd.proc[p].line.name, <<>>, TRUE) } :
          cmd' = [cmd EXCEPT !.proc[p] =
                     [@ EXCEPT !.pc = IF done.err = "nil" THEN "save" ELSE "done",
                               !.projects = done.list,
                               !.err = IF done.err = "nil" THEN "unset" ELSE done.err]]
    /\ UNCHANGED <<scanner, home, cfg, favFile, cacheFile, out, steps>>

\* runAdd from the save on: the list in memory is written over projects.json
AddSave(p) ==
    /\ cmd.name = "add"
    /\ cmd.proc[p].pc = "save"
    /\ favFile' = SaveProjects(cmd.proc[p].projects)
    /\ cmd' = [cmd EXCEPT !.proc[p] = [@ EXCEPT !.pc = "done", !.err = "nil"]]
    /\ UNCHANGED <<scanner, home, cfg, cacheFile, out, steps>>

NextRace == (\E p \in Procs : AddLoad(p)) \/ (\E p \in Procs : AddSave(p))

SpecRace == InitRace /\ [][NextRace]_vars

\* ----------------------------------------------------- claims: vocabulary
Done == pc = "done"

Returned == result.projects

Paths(ps) == { ps[i].RootPath : i \in 1..Len(ps) }

IsPrefix(b, d) == Len(b) <= Len(d) /\ SubSeq(d, 1, Len(b)) = b

Parent(d) == SubSeq(d, 1, Len(d) - 1)

\* the directories that contain a .git directory
GitDirs == { Parent(n.path) : n \in { m \in fs : Base(m.path) = nGit /\ m.type = "dir" } }

\* the directories of the file system
Dirs == { n.path : n \in { m \in fs : m.type = "dir" } }

DotPrefixed(name) == name # <<>> /\ name[1] = "."

BaseIdx == 1..Len(baseFolders)

\* d lies below the base b (or is b) and every directory on the way from below
\* b down to d is a real directory with a non-hidden, non-ignored name
PlainBelow(b, d) ==
    /\ IsPrefix(b, d)
    /\ NodeType(b) = "dir"
    /\ \A i \in (Len(b) + 1)..Len(d) :
          /\ ~DotPrefixed(d[i])
          /\ ~isIgnored(d[i])
          /\ NodeType(SubSeq(d, 1, i)) = "dir"

\* every directory from the base b down to the parent of d can be listed
ListableAbove(b, d) ==
    \A i \in Len(b)..(Len(d) - 1) : SubSeq(d, 1, i) \notin unreadable

\* some directory from the base b down to the parent of d qualifies as a project
QualifiesAbove(b, d) ==
    \E i \in Len(b)..(Len(d) - 1) : isProject(SubSeq(d, 1, i))

\* ----------------------------------------------------------------- C1
\* C1 as stated: with suppression off, a directory with .git that lies below
\* a base through plain directories is returned iff it lies at most maxDepth
\* levels below such a base.
C1_DepthBoundAsStated ==
    (Done /\ ~ignoreWithinProjects) =>
        \A d \in GitDirs :
            (\E k \in BaseIdx : PlainBelow(baseFolders[k], d)) =>
                (d \in Paths(Returned) <=>
                    \E k \in BaseIdx :
                        /\ PlainBelow(baseFolders[k], d)
                        /\ Len(d) - Len(baseFolders[k]) <= maxDepth)

\* C1 (amended): with suppression off, a directory with .git that lies below
\* a base through plain directories is returned iff, for some such base, it
\* lies at most maxDepth levels below it and every directory from that base
\* down to its parent can be listed.
C1_DepthBound ==
    (Done /\ ~ignoreWithinProjects) =>
        \A d \in GitDirs :
            (\E k \in BaseIdx : PlainBelow(baseFolders[k], d)) =>
                (d \in Paths(Returned) <=>
                    \E k \in BaseIdx :
                        /\ PlainBelow(baseFolders[k], d)
                        /\ ListableAbove(baseFolders[k], d)
                        /\ Len(d) - Len(baseFolders[k]) <= maxDepth)

\* a project exactly maxDepth >= 2 levels below its only base is returned
C1_Witness ==
    /\ Done
    /\ ~ignoreWithinProjects
    /\ baseFolders = <<<<nT>>>>
    /\ maxDepth >= 2
    /\ \E d \in GitDirs :
          /\ PlainBelow(<<nT>>, d)
          /\ Len(d) - 1 = maxDepth
          /\ d \in Paths(Returned)

\* ----------------------------------------------------------------- C2
\* C2: in every walk of a base, the flag a visited directory receives is
\* true iff some directory from the base down to its parent qualifies as a
\* project; a visited directory is emitted iff it qualifies and suppression
\* is off or that flag is false; nothing else is emitted.
C2_NestedSuppression ==
    \A k \in 1..Len(walks) :
        LET b == baseFolders[k]
            w == walks[k]
        IN  /\ \A j \in 1..Len(w.visits) :
                  LET v == w.visits[j]
                  IN  /\ IsPrefix(b, v.folder)
                      /\ v.inside <=> QualifiesAbove(b, v.folder)
                      /\ v.passed <=> (v.inside \/ isProject(v.folder))
                      /\ v.folder \in Paths(w.projects) <=>
                            /\ isProject(v.folder)
                            /\ (~ignoreWithinProjects \/ ~QualifiesAbove(b, v.folder))
            /\ Paths(w.projects) \subseteq { w.visits[j].folder : j \in 1..Len(w.visits) }

\* a qualifying directory is suppressed because of a qualifying directory that
\* is not its parent
C2_Witness ==
    /\ Done
    /\ ignoreWithinProjects
    /\ \E k \in 1..Len(walks) : \E j \in 1..Len(walks[k].visits) :
          LET v == walks[k].visits[j]
          IN  /\ v.isProject
              /\ v.inside
              /\ ~isProject(Parent(v.folder))
              /\ v.folder \notin Paths(walks[k].projects)

\* ----------------------------------------------------------------- C3
\* C3 as stated: with suppression on, no returned project lies strictly below
\* another returned project.
C3_NoNestedReturned ==
    (Done /\ ignoreWithinProjects) =>
        \A p \in Paths(Returned), q \in Paths(Returned) :
            ~(IsPrefix(p, q) /\ p # q)

\* ----------------------------------------------------------------- C4
\* the name occurs verbatim in ignoredFolders
Listed(name) == \E i \in 1..Len(ignoredFolders) : ignoredFolders[i] = name

Shunned(name) == Listed(name) \/ (DotPrefixed(name) /\ name # nVscode)

\* C4 as stated: no returned project lies under a directory whose name is
\* listed verbatim in ignoredFolders or starts with '.' (other than .vscode).
C4_NotUnderIgnoredAsStated ==
    Done => \A p \in Paths(Returned) : \A i \in 1..(Len(p) - 1) : ~Shunned(p[i])

\* C4 (amended): every returned project lies below (or is) a base folder such
\* that no directory strictly below that base and strictly above the project
\* has a name listed verbatim in ignoredFolders or starting with '.' (other
\* than .vscode).
C4_NotUnderIgnored ==
    Done => \A p \in Paths(Returned) :
                \E k \in BaseIdx :
                    /\ IsPrefix(baseFolders[k], p)
                    /\ \A i \in (Len(baseFolders[k]) + 1)..(Len(p) - 1) : ~Shunned(p[i])

\* a scan of t that lists p in ignoredFolders returns projects, none under t/p
\* although t/p/sub/api holds a .git directory within the depth bound
C4_Witness ==
    /\ Done
    /\ baseFolders = <<<<nT>>>>
    /\ ignoredFolders = <<nP>>
    /\ maxDepth = MaxDepthBound
    /\ unreadable = {}
    /\ <<nT, nP, nSub, nApi>> \in GitDirs
    /\ <<nT, nApi>> \in Paths(Returned)
    /\ <<nT, nP, nSub, nApi>> \notin Paths(Returned)

\* ----------------------------------------------------------------- C5
\* C5 as stated: every directory with .git under a base, none of whose
\* ancestors has a name matching the ignore list, is returned when maxDepth
\* is at least its depth below that base.
C5_GitCompleteAsStated ==
    Done => \A k \in BaseIdx : \A d \in GitDirs :
                ( /\ IsPrefix(baseFolders[k], d)
                  /\ \A i \in 1..(Len(d) - 1) : ~isIgnored(d[i])
                  /\ Len(d) - Len(baseFolders[k]) <= maxDepth )
                => d \in Paths(Returned)

\* C5 (amended): a directory with .git is returned when, for some base, it is
\* the base or lies below it through real directories with non-hidden,
\* non-ignored names (its own name included), every directory from the base
\* down to its parent can be listed, maxDepth is at least its depth below the
\* base, and suppression is off or no directory from the base down to its
\* parent holds a .git directory.
C5_GitComplete ==
    Done => \A k \in BaseIdx : \A d \in GitDirs :
                ( /\ PlainBelow(baseFolders[k], d)
                  /\ ListableAbove(baseFolders[k], d)
                  /\ Len(d) - Len(baseFolders[k]) <= maxDepth
                  /\ (ignoreWithinProjects =>
                        \A i \in Len(baseFolders[k])..(Len(d) - 1) :
                            SubSeq(d, 1, i) \notin GitDirs) )
                => d \in Paths(Returned)

\* with suppression on, a .git directory two or more levels below the base,
\* under no other .git directory, is returned
C5_Witness ==
    /\ Done
    /\ ignoreWithinProjects
    /\ \E k \in BaseIdx : \E d \in GitDirs :
          /\ PlainBelow(baseFolders[k], d)
          /\ ListableAbove(baseFolders[k], d)
          /\ Len(d) - Len(baseFolders[k]) >= 2
          /\ Len(d) - Len(baseFolders[k]) <= maxDepth
          /\ \A i \in Len(baseFolders[k])..(Len(d) - 1) : SubSeq(d, 1, i) \notin GitDirs
          /\ d \in Paths(Returned)

\* ----------------------------------------------------------------- C6
\* C6 as stated: the names of the returned projects are pairwise distinct.
C6_NamesDistinct ==
    Done => \A i \in 1..Len(Returned), j \in 1..Len(Returned) :
                i # j => Returned[i].Name # Returned[j].Name

\* ----------------------------------------------------------------- C7
\* the number of entries of ps among the first i that carry the name of ps[i]
Occurrence(ps, i) == Cardinality({ j \in 1..i : ps[j].Name = ps[i].Name })

\* C7: the step that deduplicates names keeps the length and order of the list
\* and every field but Name; an entry whose name occurs once, or for the first
\* time, keeps its name, and the i-th occurrence (i >= 2) of a name is renamed
\* to <name>-<i>; the list returned is the list so renamed.
C7_OrderStableNames ==
    [][ (pc = "scan" /\ pc' = "done") =>
          /\ Len(projects') = Len(projects)
          /\ result'.projects = projects'
          /\ \A i \in 1..Len(projects) :
                /\ projects'[i] = [projects[i] EXCEPT !.Name = projects'[i].Name]
                /\ projects'[i].Name =
                      IF Occurrence(projects, i) >= 2
                      THEN Sprintf(projects[i].Name, Occurrence(projects, i))
                      ELSE projects[i].Name ]_vars

\* three projects named api were found: the third, t/p/sub/api, is api-3
C7_Witness ==
    /\ Done
    /\ \E i \in 1..Len(Returned) :
          /\ Returned[i].RootPath = <<nT, nP, nSub, nApi>>
          /\ Returned[i].Name = <<"a", "p", "i", "-", "3">>
    /\ \E i \in 1..Len(Returned) :
          /\ Returned[i].RootPath = <<nT, nApi>>
          /\ Returned[i].Name = nApi

\* ----------------------------------------------------------------- C8
RECURSIVE Discovered(_)
\* the paths of the projects the first n walks found, in the order found
Discovered(n) ==
    IF n = 0 THEN <<>>
    ELSE Discovered(n - 1) \o
         [ i \in 1..Len(walks[n].projects) |-> walks[n].projects[i].RootPath ]

FirstIndex(tr, p) == CHOOSE i \in 1..Len(tr) : tr[i] = p /\ \A j \in 1..(i - 1) : tr[j] # p

\* C8: the returned projects have pairwise different paths, are exactly the
\* paths discovered, and stand in the order of their first discovery, where
\* the walks follow the order of baseFolders and each walk finds a directory
\* before its descendants and a subtree's projects without interruption.
C8_PathsUnique ==
    Done =>
        LET tr == Discovered(Len(walks))
        IN  /\ Len(walks) = Len(baseFolders)
            /\ Paths(Returned) = { tr[i] : i \in 1..Len(tr) }
            /\ \A i \in 1..Len(Returned), j \in 1..Len(Returned) :
                  i < j =>
                     /\ Returned[i].RootPath # Returned[j].RootPath
                     /\ FirstIndex(tr, Returned[i].RootPath) < FirstIndex(tr, Returned[j].RootPath)
            /\ \A k \in 1..Len(walks) :
                  LET ps == walks[k].projects
                  IN  /\ \A i \in 1..Len(ps) : IsPrefix(baseFolders[k], ps[i].RootPath)
                      /\ \A i \in 1..Len(ps), j \in 1..Len(ps) :
                            (IsPrefix(ps[i].RootPath, ps[j].RootPath) /\ i # j) => i < j
                      /\ \A i \in 1..Len(ps), j \in 1..Len(ps), l \in 1..Len(ps) :
                            (i < j /\ j < l /\ IsPrefix(ps[i].RootPath, ps[l].RootPath))
                               => IsPrefix(ps[i].RootPath, ps[j].RootPath)

\* two overlapping bases discovered the same path, which is returned
C8_Witness ==
    /\ Done
    /\ Len(baseFolders) = 2
    /\ baseFolders[1] # baseFolders[2]
    /\ \E p \in Paths(walks[1].projects) \cap Paths(walks[2].projects) : p \in Paths(Returned)
    /\ Paths(walks[2].projects) \ Paths(walks[1].projects) # {}

\* ----------------------------------------------------------------- C9
Count(log, r) == Cardinality({ i \in 1..Len(log) : log[i] = r })

CountPath(log, path) == Cardinality({ i \in 1..Len(log) : log[i].path = path })

\* C9: Scan returns a nil error; every entry of baseFolders that does not
\* exist contributes no project and is reported to the handler, when one is
\* set, exactly once with its path and an error (so the path is reported as
\* often as it is listed), and is reported nowhere when none is set; every
\* entry that exists is scanned from depth 0.
C9_MissingBase ==
    Done =>
        /\ result.err = "nil"
        /\ Len(walks) = Len(baseFolders)
        /\ ~errorHandler => reported = <<>>
        /\ \A k \in BaseIdx :
              LET b == baseFolders[k]
                  n == Cardinality({ j \in BaseIdx : baseFolders[j] = b })
              IN  IF NodeType(b) = "none"
                  THEN /\ walks[k].projects = <<>>
                       /\ \A p \in Paths(Returned) : ~IsPrefix(b, p)
                       /\ errorHandler =>
                             /\ Count(reported, Report(b, "base folder does not exist")) = n
                             /\ CountPath(reported, b) = n
                  ELSE /\ walks[k].visits # <<>>
                       /\ walks[k].visits[1].folder = b
                       /\ walks[k].visits[1].depth = 0
                       /\ Paths(walks[k].projects) \subseteq Paths(Returned)

\* a missing base precedes an existing one whose projects are returned
C9_Witness ==
    /\ Done
    /\ errorHandler
    /\ baseFolders = << <<nT, nGone>>, <<nT>> >>
    /\ Count(reported, Report(<<nT, nGone>>, "base folder does not exist")) = 1
    /\ <<nT, nApi>> \in Paths(Returned)

\* ---------------------------------------------------------------- C10
\* d is reached by the walk of base b and emitted, as far as names, types,
\* depth and suppression decide it (listing failures left aside)
WalkEmits(b, d) ==
    /\ IsPrefix(b, d)
    /\ \A i \in (Len(b) + 1)..Len(d) :
          /\ ~isHidden(d[i])
          /\ ~isIgnored(d[i])
          /\ NodeType(SubSeq(d, 1, i)) = "dir"
    /\ Len(d) - Len(b) <= maxDepth
    /\ isProject(d)
    /\ (ignoreWithinProjects => ~QualifiesAbove(b, d))

LinkChildren(folder) ==
    IF ReadDirFails(folder) THEN {}
    ELSE { Join(folder, ReadDir(folder)[i].name) :
             i \in { j \in 1..Len(ReadDir(folder)) :
                        /\ IsSymlink(ReadDir(folder)[j])
                        /\ ~isHidden(ReadDir(folder)[j].name)
                        /\ ~isIgnored(ReadDir(folder)[j].name) } }

\* C12 as stated: with supportSymlinks on, a symbolic link met in a visited
\* directory at depth d is resolved; its target is visited at depth d+1 (when
\* d+1 <= maxDepth) and returned when it qualifies and is not suppressed; a
\* link that does not resolve is reported to the error handler.
C12_SymlinkPolicy ==
    (Done /\ supportSymlinks) =>
        \A k \in 1..Len(walks) : \A j \in 1..Len(walks[k].visits) :
            LET v == walks[k].visits[j]
            IN  \A l \in LinkChildren(v.folder) :
                    IF EvalSymlinksFails(l)
                    THEN errorHandler =>
                            Count(reported, Report(l, "failed to resolve symlink")) >= 1
                    ELSE (v.depth + 1 <= maxDepth /\ StatType(l) = "dir") =>
                            /\ \E i \in 1..Len(walks[k].visits) :
                                  /\ walks[k].visits[i].folder = EvalSymlinks(l)
                                  /\ walks[k].visits[i].depth = v.depth + 1
                            /\ (isProject(EvalSymlinks(l)) /\ ~ignoreWithinProjects) =>
                                  EvalSymlinks(l) \in Paths(Returned)

\* ---------------------------------------------------------------- C19
\* the home directory is resolved and p starts with it
WithinHome(p) == ~home.err /\ HasPrefix(p, home.dir)

\* p contains neither '~' nor '$home'
NoHomeSign(p) == Index(p, sTilde) = 0 /\ Index(p, sHomeLower) = 0

\* C19: Expand(Collapse(p)) = p for every p that starts with the resolved
\* home directory and contains no '~' and no '$home'; Collapse returns a path
\* that does not start with the home directory unchanged; Expand returns a
\* path that starts with none of '~', '$home', '$HOME' unchanged.
C19_PathRoundTrip ==
    /\ (out.name = "ExpandCollapse" /\ WithinHome(cmd.path) /\ NoHomeSign(cmd.path)) =>
          out.path = cmd.path
    /\ (out.name = "Collapse" /\ ~WithinHome(cmd.path)) => out.path = cmd.path
    /\ (out.name = "Expand" /\ ~HasPrefix(cmd.path, sTilde)
                            /\ ~HasPrefix(cmd.path, sHomeLower)
                            /\ ~HasPrefix(cmd.path, sHomeUpper)) => out.path = cmd.path

\* a path strictly below the home directory, which Collapse rewrites, came
\* back from the round trip
C19_Witness ==
    /\ out.name = "ExpandCollapse"
    /\ WithinHome(cmd.path)
    /\ NoHomeSign(cmd.path)
    /\ Len(cmd.path) > Len(home.dir)
    /\ HasPrefix(Collapse(cmd.path), sTilde)
    /\ out.path = cmd.path

\* ---------------------------------------------------------------- C20
\* the list with every project's Kind replaced by kind
WithKind(list, kind) == [ i \in 1..Len(list) |-> [list[i] EXCEPT !.Kind = kind] ]

\* the path starts with none of '~', '$home', '$HOME'
PlainRoot(path) ==
    /\ ~HasPrefix(path, sTilde)
    /\ ~HasPrefix(path, sHomeLower)
    /\ ~HasPrefix(path, sHomeUpper)

AllPlain(list) == \A i \in 1..Len(list) : PlainRoot(list[i].RootPath)

Requested == IF cmd.filter = {} THEN KindSet \cup {KindFavorite} ELSE cmd.filter

\* the list stored for a kind, as it is loaded
StoredList(kind) ==
    IF kind = KindFavorite THEN LoadProjects(favFile) ELSE LoadCache(cacheFile)[kind]

\* the place of a kind in the order Favorite, Git, SVN, Mercurial, VSCode, Any
KindRank(kind) == CHOOSE k \in 1..Len(kindOrder) : kindOrder[k] = kind

\* C15: the merged catalog holds, for every requested kind, exactly that
\* kind's stored list in its stored order, nothing of a kind that was not
\* requested, and the kinds follow each other in the order Favorite, Git,
\* SVN, Mercurial, VSCode, Any.
C15_MergeOrder ==
    out.name = "list" =>
        /\ \A k \in 1..Len(kindOrder) :
              SelectSeq(out.merged, LAMBDA q : q.Kind = kindOrder[k]) =
                 IF kindOrder[k] \in Requested THEN StoredList(kindOrder[k]) ELSE <<>>
        /\ \A i \in 1..Len(out.merged), j \in 1..Len(out.merged) :
              i < j => KindRank(out.merged[i].Kind) <= KindRank(out.merged[j].Kind)

\* git and any were requested, favorites were not although two are stored:
\* the catalog is the git list followed by the any list
C15_Witness ==
    /\ out.name = "list"
    /\ cmd.filter = {KindGit, KindAny}
    /\ Len(favFile.projects) = 2
    /\ Len(StoredList(KindGit)) = 1
    /\ Len(StoredList(KindVSCode)) = 1
    /\ out.merged = StoredList(KindGit) \o StoredList(KindAny)
    /\ StoredList(KindAny)[1] # StoredList(KindAny)[2]

\* ---------------------------------------------------------------- C16
\* C16 as stated: the same list command run again on the same storage prints
\* the same list, and the call leaves the lists it loaded as it loaded them:
\* no project of theirs has a field changed, none has moved.
C16_MergeIdempotent ==
    out.name = "list" =>
        /\ out.repeat # "differs"
        /\ out.after = out.loaded

\* ---------------------------------------------------------------- C18
\* C18 as stated: without --all no project that is printed has Enabled false
\* when it is printed, and the stored lists are what they were when loaded.
C18_DisabledHidden ==
    (out.name = "list" /\ ~cmd.all) =>
        /\ \A i \in 1..Len(out.shown) : out.shown[i].Enabled
        /\ out.loaded = Loaded(cmd.filter)

\* ---------------------------------------------------------------- C11
\* C11 as stated: a scan command whose --depth flag is negative, or that
\* handed a negative maximum depth to the scanner of some kind, returns an
\* error instead of completing.
C11_NegativeDepthRejected ==
    (/\ out.name = "scan"
     /\ out.err # "running"
     /\ (out.depth < 0 \/ \E d \in out.handed : d < 0)) =>
        out.err # "nil"

\* ---------------------------------------------------------------- C13
\* C13 as stated: whatever kind the scan command is scanning, its scanner
\* has the two policy flags of the configuration, and with
\* ignoreProjectsWithinProjects on no walk returns a project below another
\* project it returns.
C13_FlagsForEveryKind ==
    (cmd.name = "scan" /\ pc \in {"scan", "done"}) =>
        /\ ignoreWithinProjects = cfg.IgnoreProjectsWithinProjects
        /\ supportSymlinks = cfg.SupportSymlinks
        /\ cfg.IgnoreProjectsWithinProjects =>
              \A k \in 1..Len(walks) :
                  \A p \in Paths(walks[k].projects), q \in Paths(walks[k].projects) :
                      ~(IsPrefix(p, q) /\ p # q)

\* ---------------------------------------------------------------- C14
\* the catalog: the stored favorites and the cached lists, as they are loaded
Catalog ==
    LoadProjects(favFile)
    \o LoadCache(cacheFile)[KindGit]
    \o LoadCache(cacheFile)[KindSVN]
    \o LoadCache(cacheFile)[KindMercurial]
    \o LoadCache(cacheFile)[KindVSCode]
    \o LoadCache(cacheFile)[KindAny]

\* C14 as stated: every stored favorite and every cached scan result has an
\* absolute rootPath.
C14_RootPathsAbsolute ==
    \A i \in 1..Len(Catalog) : IsAbs(Catalog[i].RootPath)

\* ---------------------------------------------------------------- C17
\* C17 as stated: no two entries of the catalog have the same kind and the
\* same rootPath.
C17_CatalogUnique ==
    \A i \in 1..Len(Catalog), j \in 1..Len(Catalog) :
        (i # j /\ Catalog[i].Kind = Catalog[j].Kind) =>
            Catalog[i].RootPath # Catalog[j].RootPath

\* ------------------------------------------------------------------- C21
\* C21: a ClearCache call returns no error whether or not a cache file
\* exists, a LoadCache after it finds every bucket empty, the stored
\* favorites are what they were before the call, and a second ClearCache
\* would leave the cache as the first left it.
C21_ClearCache ==
    [][ out'.name = "ClearCache" =>
          /\ out'.err = "nil"
          /\ \A k \in KindSet : LoadCache(cacheFile')[k] = <<>>
          /\ favFile' = favFile
          /\ ClearCache(cacheFile') = cacheFile' ]_vars

\* ClearCache ran on a cache with a project in it, next to stored favorites
C21_Witness ==
    /\ out.name = "ClearCache"
    /\ out.before.exists
    /\ \E k \in KindSet : Len(out.before.buckets[k]) > 0
    /\ favFile.exists
    /\ Len(favFile.projects) > 0

\* ------------------------------------------------------------------- C22
\* the places of the names of the call that equal the query ignoring case
ExactAt == { i \in 1..Len(out.projects) : EqualFold(out.projects[i].Name, out.query) }

\* the places of the names of the call that contain the query ignoring case
PartAt ==
    { i \in 1..Len(out.projects) :
        \E k \in 0..Len(out.projects[i].Name), n \in 0..Len(out.projects[i].Name) :
            /\ k + n <= Len(out.projects[i].Name)
            /\ n = Len(out.query)
            /\ ToLower(SubSeq(out.projects[i].Name, k + 1, k + n)) = ToLower(out.query) }

\* C22: FindProjectByName returns the first project whose name equals the
\* query ignoring case, with no error, whatever other names contain the
\* query; with no such project it returns the only project whose name
\* contains the query ignoring case; with several such projects it returns
\* an error, all of them in list order, and no project; with none it returns
\* a not-found error and no project.
C22_FindByName ==
    out.name = "FindProjectByName" =>
        /\ ExactAt # {} =>
              /\ out.err = "nil"
              /\ out.project \in ExactAt
              /\ \A j \in ExactAt : out.project <= j
        /\ ExactAt = {} /\ Cardinality(PartAt) = 1 =>
              /\ out.err = "nil"
              /\ out.project \in PartAt
        /\ ExactAt = {} /\ Cardinality(PartAt) > 1 =>
              /\ out.err # "nil"
              /\ out.project = 0
              /\ { out.matches[i] : i \in 1..Len(out.matches) } = PartAt
              /\ Len(out.matches) = Cardinality(PartAt)
              /\ \A i \in 1..(Len(out.matches) - 1) : out.matches[i] < out.matches[i + 1]
        /\ ExactAt = {} /\ PartAt = {} =>
              /\ out.err = "not found"
              /\ out.project = 0

\* a query that equals the name of a later project and is part of the name
\* of an earlier one
C22_Witness ==
    /\ out.name = "FindProjectByName"
    /\ ExactAt # {}
    /\ \E i \in PartAt \ ExactAt : \A j \in ExactAt : i < j
    /\ out.err = "nil"

\* ------------------------------------------------------------------- C23
\* the select command showed its numbered list
Prompted == out.name = "select" /\ Len(out.args) = 0 /\ Len(out.given) > 0

\* the number of entries shown
Shown == Len(out.asked.lines)

\* the place of a pointer in the slice handed to FormatProjectList
PlaceIn(refs, r) == CHOOSE i \in 1..Len(refs) : refs[i] = r

\* the rank of the kind of the project on line i
LineRank(i) ==
    CHOOSE k \in 1..Len(kindOrder) : kindOrder[k] = out.lines[i].project.Kind

\* the line typed, without the blanks around it
Typed == TrimSpace(out.input)

\* the numbering of the list: every project is shown once, the indices are
\* 1..N in the order of the lines, and in grouped mode the lines follow the
\* canonical order of the kinds and the input order within a kind
NumberedInOrder ==
    /\ Shown = Len(out.given)
    /\ \A i \in 1..Shown : out.asked.lines[i].index = i
    /\ { out.asked.lines[i].ref : i \in 1..Shown }
          = { out.asked.sorted[i] : i \in 1..Len(out.asked.sorted) }
    /\ out.grouped =>
          \A i, j \in 1..Shown :
              i < j =>
                 \/ LineRank(i) < LineRank(j)
                 \/ /\ LineRank(i) = LineRank(j)
                    /\ PlaceIn(out.asked.sorted, out.asked.lines[i].ref)
                          < PlaceIn(out.asked.sorted, out.asked.lines[j].ref)
    /\ ~out.grouped =>
          \A i \in 1..Shown : out.asked.lines[i].ref = out.asked.sorted[i]

\* a number in 1..N selects the project shown with that index
NumberSelects ==
    (~Atoi(Typed).err /\ Atoi(Typed).n \in 1..Shown) =>
        /\ out.asked.err = "nil"
        /\ ~out.asked.quit
        /\ \E i \in 1..Shown :
              /\ out.asked.lines[i].index = Atoi(Typed).n
              /\ out.asked.selected = <<out.asked.lines[i].ref>>

\* C23 as stated: the indices are 1..N without gaps in the canonical order,
\* a number in 1..N selects the project shown with it, and 0, a number
\* above N or a line that is not a number returns an error and selects
\* nothing.
C23_StableIndexingAsStated ==
    Prompted =>
        /\ NumberedInOrder
        /\ NumberSelects
        /\ (Atoi(Typed).err \/ Atoi(Typed).n = 0 \/ Atoi(Typed).n > Shown) =>
              /\ out.asked.err # "nil"
              /\ out.asked.selected = <<>>

\* C23: the indices are 1..N without gaps in the canonical order, a number
\* in 1..N selects the project shown with it, and 0, a number above N or a
\* line that is not a number selects nothing and returns an error, except
\* that the line q or Q ends the process with exit status 0 instead.
C23_StableIndexing ==
    Prompted =>
        /\ NumberedInOrder
        /\ NumberSelects
        /\ (Atoi(Typed).err \/ Atoi(Typed).n = 0 \/ Atoi(Typed).n > Shown) =>
              /\ out.asked.selected = <<>>
              /\ IF Typed \in { <<"q">>, <<"Q">> }
                 THEN out.asked.quit /\ out.asked.err = "nil"
                 ELSE ~out.asked.quit /\ out.asked.err # "nil"

\* a grouped list of several kinds whose order differs from the input order,
\* and a number typed that selects a project that is not at that place of
\* the input
C23_Witness ==
    /\ Prompted
    /\ out.grouped
    /\ \E i \in 1..Shown : out.asked.lines[i].ref # out.asked.sorted[i]
    /\ out.asked.selected # <<>>
    /\ out.asked.selected[1] # out.asked.sorted[Atoi(Typed).n]

\* ------------------------------------------------------------------- C24
\* the stored favorites, as a command loads them
Favorites == LoadProjects(favFile)

\* C24: no stored favorite has a tag twice in its tag list, and after a
\* tag remove command that succeeded the project it named no longer has
\* the tag.
C24_TagsFormSet ==
    /\ \A i \in 1..Len(Favorites) :
          \A j, k \in 1..Len(Favorites[i].Tags) :
              Favorites[i].Tags[j] = Favorites[i].Tags[k] => j = k
    /\ (out.name = "tag remove" /\ out.err = "nil") =>
          ~HasTag(Favorites[FindByName(Favorites, out.project)], out.tag)

\* ------------------------------------------------------------------- C25
\* the frames of the calls of scanFolder that are running
Frames == IF cmd.name = "scanFolder" THEN cmd.stack ELSE <<>>

\* C25: Scan returns in the end, also with links followed and a cycle of
\* links in the file system; every call of scanFolder has a depth one more
\* than the call that made it, and a call that got past the depth test has a
\* depth of at most maxDepth.
C25_Termination ==
    /\ <>(pc = "done")
    /\ [](/\ \A k \in 1..Len(Frames) : Frames[k].depth = k - 1
          /\ \A k \in 1..Len(Frames) : Frames[k].stage = "loop" => Frames[k].depth <= maxDepth
          /\ \A w \in 1..Len(walks) : \A v \in 1..Len(walks[w].visits) :
                walks[w].visits[v].depth <= maxDepth)

\* Scan returned with links followed, after it listed t/p/sub, which holds
\* the link back to t/p
C25_Witness ==
    /\ pc = "done"
    /\ supportSymlinks
    /\ \E w \in 1..Len(walks) : \E v \in 1..Len(walks[w].visits) :
          walks[w].visits[v].folder = <<nT, nP, nSub>>

\* ------------------------------------------------------------------- C26
\* C26: a scan command leaves the cached bucket of every kind it was not
\* asked to scan as it was before the command.
C26_UnscannedKept ==
    [][ (cmd.name = "scan" /\ cmd'.name = "idle") =>
          \A k \in KindSet \ cmd.kinds :
              LoadCache(cacheFile')[k] = LoadCache(cacheFile)[k] ]_vars

\* C27: every project Scan returns, whatever the kind, has a rootPath that is
\* a directory: a base folder that is a regular file yields no project
C27_RootPathIsDirectory ==
    pc = "done" =>
        \A i \in 1..Len(result.projects) :
            StatType(result.projects[i].RootPath) = "dir"

\* C28: no two stored favorites have names that are equal ignoring case, so
\* FindByName finds every stored favorite by its own name
C28_NamesUniqueFold ==
    \A i, j \in 1..Len(Favorites) :
        /\ EqualFold(Favorites[i].Name, Favorites[j].Name) => i = j
        /\ FindByName(Favorites, Favorites[i].Name) = i

\* the commands that write projects.json
FavoritesCommands == { "add", "edit", "remove", "tag add", "tag remove" }

\* C29: an add, edit, remove or tag command that returns an error leaves the
\* stored favorites exactly as they were
C29_UnchangedOnError ==
    [][(steps' = steps + 1 /\ out'.name \in FavoritesCommands /\ out'.err # "nil")
          => favFile' = favFile]_vars

\* an edit failed after an earlier option had been applied in memory
C29_Witness ==
    /\ out.name = "edit"
    /\ out.err \in { "path does not exist", "path is not a directory",
                     "--enabled must be a boolean value" }
    /\ out.memory # Favorites
    /\ Favorites # <<>>

\* the two add commands have returned
BothReturned == cmd.name = "add" /\ \A p \in Procs : cmd.proc[p].pc = "done"

\* the favorite a process added is stored
Stored(p) ==
    \E i \in 1..Len(Favorites) :
        /\ Favorites[i].Name = cmd.proc[p].line.name
        /\ Favorites[i].RootPath = Abs(cmd.proc[p].line.path)

\* C30: when two concurrent add commands for different paths and different
\* names both report success, both projects are stored afterwards
C30_NoLostUpdate ==
    (/\ BothReturned
     /\ \A p \in Procs : cmd.proc[p].err = "nil"
     /\ cmd.proc[1].line.name # cmd.proc[2].line.name
     /\ Abs(cmd.proc[1].line.path) # Abs(cmd.proc[2].line.path))
        => \A p \in Procs : Stored(p)

====
